---------------------------- MODULE Spec2Model ----------------------------
(***************************************************************************)
(* Worktree lifecycle of src-tauri/src/worktree.rs: branch naming, stable  *)
(* identity, base-ref resolution, the mutex-guarded registry and the       *)
(* create / list / remove / merge commands.                                *)
(*                                                                         *)
(* Strings are sequences of one-character strings, so that the string      *)
(* algorithms of the source (replace, trim, starts_with) are computed.     *)
(* Filesystem paths are such strings too, with "/" as the separator; the   *)
(* filesystem is the set of directories that exist, each by its canonical  *)
(* path string.  There are no symbolic links in the model.                 *)
(***************************************************************************)
EXTENDS Integers, Sequences, FiniteSets, TLC

(***************************************************************************)
(* Characters                                                              *)
(***************************************************************************)
LowerSeq == <<"a","b","c","d","e","f","g","h","i","j","k","l","m",
              "n","o","p","q","r","s","t","u","v","w","x","y","z">>
UpperSeq == <<"A","B","C","D","E","F","G","H","I","J","K","L","M",
              "N","O","P","Q","R","S","T","U","V","W","X","Y","Z">>
DigitSeq == <<"0","1","2","3","4","5","6","7","8","9">>
HexSeq == <<"0","1","2","3","4","5","6","7","8","9","a","b","c","d","e","f">>
OtherSeq == <<"-", "/", ".", "_", " ", "{", "}", "[", "]", "~", ":", "'">>

Range(s) == {s[i] : i \in 1..Len(s)}

\* char::is_ascii_alphanumeric
IsAsciiAlnum(c) == c \in Range(LowerSeq) \cup Range(UpperSeq) \cup Range(DigitSeq)

\* char::is_whitespace (the whitespace characters the model uses)
IsWhitespace(c) == c \in {" ", "\t", "\n"}

\* characters outside ASCII, each written as its code point: LATIN CAPITAL
\* LETTER E WITH ACUTE and its small letter, KELVIN SIGN, LATIN CAPITAL
\* LETTER I WITH DOT ABOVE, COMBINING DOT ABOVE
E_ACUTE_CAPITAL == "U+00C9"
E_ACUTE_SMALL == "U+00E9"
KELVIN_SIGN == "U+212A"
I_DOTTED_CAPITAL == "U+0130"
COMBINING_DOT == "U+0307"

\* str::to_lowercase, one character that maps to one character
ToLowerChar(c) ==
  IF c \in Range(UpperSeq)
    THEN LowerSeq[CHOOSE i \in 1..Len(UpperSeq) : UpperSeq[i] = c]
  ELSE IF c = E_ACUTE_CAPITAL THEN E_ACUTE_SMALL
  ELSE IF c = KELVIN_SIGN THEN "k"
  ELSE c

\* str::to_lowercase: the dotted capital I becomes two characters
RECURSIVE ToLower(_)
ToLower(s) ==
  IF Len(s) = 0 THEN <<>>
  ELSE (IF s[1] = I_DOTTED_CAPITAL THEN <<"i", COMBINING_DOT>>
        ELSE <<ToLowerChar(s[1])>>) \o ToLower(Tail(s))

(***************************************************************************)
(* String helpers of the Rust standard library, as the source uses them    *)
(***************************************************************************)
StartsWith(s, p) == Len(p) <= Len(s) /\ SubSeq(s, 1, Len(p)) = p

RECURSIVE Contains(_, _)
Contains(s, p) ==
  IF Len(s) < Len(p) THEN FALSE
  ELSE IF StartsWith(s, p) THEN TRUE
  ELSE Contains(Tail(s), p)

\* str::replace(pat, rep): non-overlapping matches, left to right
RECURSIVE ReplaceAll(_, _, _)
ReplaceAll(s, p, r) ==
  IF Len(s) < Len(p) \/ Len(p) = 0 THEN s
  ELSE IF StartsWith(s, p) THEN r \o ReplaceAll(SubSeq(s, Len(p) + 1, Len(s)), p, r)
  ELSE <<s[1]>> \o ReplaceAll(Tail(s), p, r)

\* while n.contains(p) { n = n.replace(p, r) }
RECURSIVE ReplaceWhile(_, _, _)
ReplaceWhile(s, p, r) ==
  IF Contains(s, p) THEN ReplaceWhile(ReplaceAll(s, p, r), p, r) ELSE s

RECURSIVE TrimStartMatches(_, _)
TrimStartMatches(s, cs) ==
  IF Len(s) > 0 /\ s[1] \in cs THEN TrimStartMatches(Tail(s), cs) ELSE s

RECURSIVE TrimEndMatches(_, _)
TrimEndMatches(s, cs) ==
  IF Len(s) > 0 /\ s[Len(s)] \in cs
    THEN TrimEndMatches(SubSeq(s, 1, Len(s) - 1), cs) ELSE s

\* str::trim_matches(chars)
TrimMatches(s, cs) == TrimEndMatches(TrimStartMatches(s, cs), cs)

\* str::trim
Trim(s) == TrimMatches(s, {" ", "\t", "\n"})

\* str::trim_start_matches(prefix string): strips the prefix repeatedly
RECURSIVE TrimStartPrefix(_, _)
TrimStartPrefix(s, p) ==
  IF Len(p) > 0 /\ StartsWith(s, p)
    THEN TrimStartPrefix(SubSeq(s, Len(p) + 1, Len(s)), p) ELSE s

\* position of the first occurrence of character c, 0 when absent (str::find)
RECURSIVE FindChar(_, _, _)
FindChar(s, c, i) ==
  IF i > Len(s) THEN 0 ELSE IF s[i] = c THEN i ELSE FindChar(s, c, i + 1)

\* i64::to_string for a non-negative number
RECURSIVE to_string(_)
to_string(n) ==
  IF n < 10 THEN <<DigitSeq[n + 1]>>
  ELSE to_string(n \div 10) \o <<DigitSeq[(n % 10) + 1]>>

RECURSIVE Flatten(_)
Flatten(ss) == IF Len(ss) = 0 THEN <<>> ELSE ss[1] \o Flatten(Tail(ss))

(***************************************************************************)
(* BranchNamer                                                             *)
(***************************************************************************)
\* slugify, second loop (lines 166-178): drop a '-' that follows a '-'
RECURSIVE CollapseDashes(_, _)
CollapseDashes(s, prevDash) ==
  IF Len(s) = 0 THEN <<>>
  ELSE IF s[1] = "-"
    THEN (IF prevDash THEN <<>> ELSE <<"-">>) \o CollapseDashes(Tail(s), TRUE)
    ELSE <<s[1]>> \o CollapseDashes(Tail(s), FALSE)

\* a slugify that returns the collapsed string untrimmed
slugify_untrimmed(name) ==
  LET lower == ToLower(name)
      out == [i \in 1..Len(lower) |->
                IF IsAsciiAlnum(lower[i]) THEN lower[i] ELSE "-"]
  IN CollapseDashes(out, FALSE)

slugify(name) ==
  LET lower == ToLower(name)
      out == [i \in 1..Len(lower) |->
                IF IsAsciiAlnum(lower[i]) THEN lower[i] ELSE "-"]
      cleaned == CollapseDashes(out, FALSE)
  IN TrimMatches(cleaned, {"-"})

TASK == <<"t","a","s","k">>
HEAD == <<"H","E","A","D">>
SLUG_PH == <<"{","s","l","u","g","}">>
TS_PH == <<"{","t","i","m","e","s","t","a","m","p","}">>

AGENT_SLASH == <<"a","g","e","n","t","/">>

\* a sanitize_branch_name that also replaces '.' and '_' by '-'
sanitize_trimmed_strict(name) ==
  LET n1 == [i \in 1..Len(name) |-> IF IsWhitespace(name[i]) THEN "-" ELSE name[i]]
      n2 == [i \in 1..Len(n1) |->
               IF ~IsAsciiAlnum(n1[i]) /\ n1[i] \notin {"/", "-"}
                 THEN "-" ELSE n1[i]]
      n3 == ReplaceWhile(n2, <<"/","/">>, <<"/">>)
      n4 == ReplaceWhile(n3, <<"-","-">>, <<"-">>)
  IN TrimMatches(n4, {".", "/", "-"})

\* sanitize_branch_name, lines 193-202: the replacements and the trim
sanitize_trimmed(name) ==
  LET n1 == [i \in 1..Len(name) |-> IF IsWhitespace(name[i]) THEN "-" ELSE name[i]]
      n2 == [i \in 1..Len(n1) |->
               IF ~IsAsciiAlnum(n1[i]) /\ n1[i] \notin {".", "_", "/", "-"}
                 THEN "-" ELSE n1[i]]
      n3 == ReplaceWhile(n2, <<"/","/">>, <<"/">>)
      n4 == ReplaceWhile(n3, <<"-","-">>, <<"-">>)
  IN TrimMatches(n4, {".", "/", "-"})

\* a sanitize_branch_name whose fallback test forgets "HEAD"
sanitize_no_head_check(name) ==
  LET trimmed == sanitize_trimmed(name)
  IN IF trimmed = <<>> THEN AGENT_SLASH \o slugify(TASK) ELSE trimmed

sanitize_branch_name(name) ==
  LET trimmed == sanitize_trimmed(name)
  IN IF trimmed = <<>> \/ trimmed = HEAD
       THEN AGENT_SLASH \o slugify(TASK)
       ELSE trimmed

render_branch_template(template, slug, timestamp) ==
  LET replaced == ReplaceAll(ReplaceAll(template, SLUG_PH, slug), TS_PH, timestamp)
  IN sanitize_branch_name(replaced)

\* Option<String>: <<>> stands for None (Some is never empty here)
extract_template_prefix(template) ==
  LET idx == FindChar(template, "{", 1)
      head == IF idx > 0 THEN Trim(SubSeq(template, 1, idx - 1)) ELSE Trim(template)
      cleaned == SelectSeq(head, LAMBDA c : c # " ")
      slash == FindChar(cleaned, "/", 1)
      first == IF slash > 0 THEN SubSeq(cleaned, 1, slash - 1) ELSE cleaned
  IN TrimMatches(first, {".", "/", "-"})

(***************************************************************************)
(* Paths and the filesystem                                                *)
(***************************************************************************)
\* str::split('/') : the pieces between separators (possibly empty)
RECURSIVE SplitOn(_, _, _)
SplitOn(s, c, cur) ==
  IF Len(s) = 0 THEN <<cur>>
  ELSE IF s[1] = c THEN <<cur>> \o SplitOn(Tail(s), c, <<>>)
  ELSE SplitOn(Tail(s), c, Append(cur, s[1]))

\* Path::components of an absolute path: empty pieces are dropped
Components(path) == SelectSeq(SplitOn(path, "/", <<>>), LAMBDA c : c # <<>>)

RECURSIVE JoinComponents(_)
JoinComponents(cs) ==
  IF Len(cs) = 0 THEN <<>> ELSE <<"/">> \o cs[1] \o JoinComponents(Tail(cs))

\* PathBuf::join(component).to_string_lossy()
PathJoin(path, comp) ==
  IF Len(path) > 0 /\ path[Len(path)] = "/" THEN path \o comp
  ELSE path \o <<"/">> \o comp

DOT == <<".">>
DOTDOT == <<".", ".">>
WORKTREES == <<"w","o","r","k","t","r","e","e","s">>
ROOT == <<"/">>

\* Path::file_name: the last component unless it is ".."
file_name(path) ==
  LET cs == SelectSeq(Components(path), LAMBDA c : c # DOT)
  IN IF Len(cs) = 0 \/ cs[Len(cs)] = DOTDOT THEN path ELSE cs[Len(cs)]

\* Path::parent as a string: everything before the last component
parent(path) ==
  LET cs == Components(path)
  IN IF Len(cs) <= 1 THEN ROOT ELSE JoinComponents(SubSeq(cs, 1, Len(cs) - 1))

CanonString(cs) == IF Len(cs) = 0 THEN ROOT ELSE JoinComponents(cs)

\* realpath(3) without symbolic links: walk the components; every directory
\* stepped into must exist.  The result is <<TRUE, canonical string>> or
\* <<FALSE, <<>>>> (ENOENT).
RECURSIVE Walk(_, _, _)
Walk(acc, rest, fs) ==
  IF Len(rest) = 0 THEN <<TRUE, CanonString(acc)>>
  ELSE IF rest[1] = DOT THEN Walk(acc, Tail(rest), fs)
  ELSE IF rest[1] = DOTDOT
    THEN Walk(IF Len(acc) = 0 THEN acc ELSE SubSeq(acc, 1, Len(acc) - 1), Tail(rest), fs)
  ELSE IF CanonString(Append(acc, rest[1])) \in fs
    THEN Walk(Append(acc, rest[1]), Tail(rest), fs)
  ELSE <<FALSE, <<>>>>

\* Path::canonicalize
canonicalize(path, fs) == Walk(<<>>, Components(path), fs)

\* Path::exists
exists(path, fs) == canonicalize(path, fs)[1]

(***************************************************************************)
(* StableIdentity                                                          *)
(***************************************************************************)
AllChars == LowerSeq \o UpperSeq \o DigitSeq \o OtherSeq \o <<"\t", "\n">>

CharCode(c) == CHOOSE i \in 1..Len(AllChars) : AllChars[i] = c

\* Sha1::update over the bytes: stands for the digest's internal state.  The
\* real SHA-1 is replaced by a 16-bit rolling checksum; what the model keeps
\* of it is that the digest is a function of the bytes alone and that the
\* paths of the model get different digests.
RECURSIVE Sha1State(_, _)
Sha1State(s, h) ==
  IF Len(s) = 0 THEN h
  ELSE Sha1State(Tail(s), (h * 31 + CharCode(s[1])) % 65521)

NibblePow(i) == IF i % 3 = 0 THEN 1 ELSE IF i % 3 = 1 THEN 16 ELSE 256

\* hex::encode(hasher.finalize()): 40 lowercase hex digits
Sha1Hex(s) ==
  LET h == Sha1State(s, 7)
  IN [i \in 1..40 |-> HexSeq[(((h * (2 * i + 1) + i) \div NibblePow(i)) % 16) + 1]]

WT_DASH == <<"w","t","-">>

Min(a, b) == IF a < b THEN a ELSE b

\* a stable_id_from_path that hashes the string it was given
stable_id_no_canonicalize(path, fs) ==
  LET hex == Sha1Hex(path)
  IN WT_DASH \o SubSeq(hex, 1, Min(12, Len(hex)))

stable_id_from_path(path, fs) ==
  LET c == canonicalize(path, fs)
      abs == IF c[1] THEN c[2] ELSE path
      hex == Sha1Hex(abs)
  IN WT_DASH \o SubSeq(hex, 1, Min(12, Len(hex)))

(***************************************************************************)
(* Bounds and the values the commands are called with                      *)
(***************************************************************************)
MaxCalls == 2       \* commands started in one behaviour
MaxThreadCalls == 2 \* commands started in one behaviour by two concurrent callers
MaxRaceCalls == 3   \* the same, where two callers create from a branch and remove
MaxLifeCalls == 3   \* the same, where workspaces are only created from a branch and removed
MaxClock == 2       \* the millisecond clock runs from 1 to MaxClock

Threads == {"t1", "t2"}

REPO == <<"/","r">>                        \* the project directory
PROJ == <<"p","1">>                        \* the project id
BLANK == <<" ">>                           \* a string that trims to nothing
MAIN == <<"m","a","i","n">>
ORIGIN == <<"o","r","i","g","i","n">>
PR_BRANCH == <<"p","r","/","5">>           \* a branch that exists before any call
PR_SLUG == <<"p","r","-","5">>
FIX == <<"F","x">>                         \* a task name
DEFAULT_TEMPLATE == <<"a","g","e","n","t","/">> \o SLUG_PH \o <<"-">> \o TS_PH

\* Option<T>: <<>> is None, <<x>> is Some(x)
None == <<>>
Some(x) == <<x>>

EmptyMap == [k \in {} |-> k]

\* the worktrees directory of the project, as the source spells it
WorktreesDirOf(project_path) == PathJoin(PathJoin(project_path, DOTDOT), WORKTREES)

\* the explicit path github_create_pull_request_worktree passes (github.rs 880-884)
PR_PATH == PathJoin(WorktreesDirOf(REPO), PR_SLUG)

RECURSIVE LexWalk(_, _)
LexWalk(acc, rest) ==
  IF Len(rest) = 0 THEN acc
  ELSE IF rest[1] = DOT THEN LexWalk(acc, Tail(rest))
  ELSE IF rest[1] = DOTDOT
    THEN LexWalk(IF Len(acc) = 0 THEN acc ELSE SubSeq(acc, 1, Len(acc) - 1), Tail(rest))
  ELSE LexWalk(Append(acc, rest[1]), Tail(rest))

\* the real path of a path whose directories need not exist yet (no symlinks)
RealPath(path) == CanonString(LexWalk(<<>>, Components(path)))

\* fs::create_dir_all: the directory and every missing ancestor
WithAncestors(path) ==
  LET cs == LexWalk(<<>>, Components(path))
  IN {CanonString(SubSeq(cs, 1, n)) : n \in 0..Len(cs)}

\* fs::remove_dir_all: the directory and everything below it
Below(path, fs) == {d \in fs : d = path \/ StartsWith(d, path \o <<"/">>)}

VARIABLES
  registry,     \* WorktreeState.inner: id -> WorktreeInfo
  lockHolder,   \* the thread holding the registry Mutex, or "none"
  dirs,         \* the directories that exist, by canonical path
  gitWt,        \* git's linked-worktree metadata: [path, branch]
  branches,     \* the local branches of the project repository
  head,         \* the branch checked out in the project directory
  dbRow,        \* the project's settings row in the database
  template,     \* settings: repository.branchTemplate
  pushOnCreate, \* settings: repository.pushOnCreate
  clock,        \* Utc::now() in milliseconds
  ncalls,       \* commands started so far
  known,        \* the frontend's memory: [id, path, branch] of the records it was given
  budget,       \* how many commands the callers issue in this behaviour
  input,        \* the arguments of a function applied on its own
  output,       \* what the function returned for them
  th            \* per thread: position, arguments, locals of the running command

vars == <<registry, lockHolder, dirs, gitWt, branches, head, dbRow, template,
          pushOnCreate, clock, ncalls, known, budget, input, output, th>>

shared == <<registry, lockHolder, dirs, gitWt, branches, head, dbRow>>
fixed == <<template, pushOnCreate, budget, input, output>>
outside == <<fixed, known>>

(***************************************************************************)
(* Records                                                                 *)
(***************************************************************************)
WorktreeInfo(id, name, branch, path, project_id, created_at) ==
  [id |-> id, name |-> name, branch |-> branch, path |-> path,
   project_id |-> project_id, status |-> "active", created_at |-> created_at,
   last_activity |-> None]

BaseRefInfo(remote, branch) ==
  [remote |-> remote, branch |-> branch, full_ref |-> remote \o <<"/">> \o branch]

Ret(success, error) ==
  [success |-> success, error |-> error, worktree |-> None, worktrees |-> <<>>,
   base_ref |-> None]

NoArgs ==
  [project_path |-> <<>>, task_name |-> <<>>, project_id |-> <<>>,
   worktree_id |-> <<>>, worktree_path |-> None, branch |-> None,
   branch_name |-> <<>>]

NoLoc ==
  [slug |-> <<>>, timestamp |-> 0, branch_name |-> <<>>, worktree_path |-> <<>>,
   name |-> <<>>, row |-> None, base_ref |-> None, err |-> <<>>, fallback |-> None,
   fetched |-> None, info |-> None, stdout |-> <<>>, prefixes |-> <<>>,
   existing |-> None, path_to_remove |-> <<>>, branch_to_delete |-> None,
   default_branch |-> <<>>, in_merge |-> FALSE,
   fetches |-> <<>>,       \* the refs `git fetch` was run for, in order
   persisted |-> <<>>,     \* the refs handed to db::update_project_base_ref, in order
   push_deleted |-> <<>>,  \* the branches `git push origin --delete` was run for
   rm |-> [worktree_id |-> <<>>, worktree_path |-> None, branch |-> None]]

NoError == [kind |-> "", parts |-> <<>>]

NoRet == Ret(FALSE, NoError)

\* what is remembered of the command a thread ran before the current one
NoPrev ==
  [op |-> "none", ok |-> FALSE, args |-> NoArgs, id |-> <<>>, found |-> FALSE,
   path |-> <<>>,
   synth |-> {},           \* the ids it returned that were not in the registry
   fell_back |-> None]     \* the ref that failed and the fallback it got instead

IdleThread ==
  [pc |-> "idle", op |-> "none", args |-> NoArgs, loc |-> NoLoc, snap |-> None,
   log |-> <<>>, ret |-> NoRet, prev |-> NoPrev]

Snapshot ==
  [registry |-> registry, dirs |-> dirs, gitWt |-> gitWt, branches |-> branches,
   head |-> head, dbRow |-> dbRow]

(***************************************************************************)
(* Thread bookkeeping                                                      *)
(***************************************************************************)
\* a command is dispatched onto a blocking worker (runtime.rs run_blocking)
Begin(t, op, args, pc0) ==
  /\ th[t].pc = "idle"
  /\ ncalls < budget
  /\ ncalls' = ncalls + 1
  /\ th' = [th EXCEPT ![t] =
       [IdleThread EXCEPT !.pc = pc0, !.op = op, !.args = args,
                          !.snap = Some(Snapshot), !.prev = th[t].prev]]

\* the command returns r
Return(t, r, tag) ==
  th' = [th EXCEPT ![t].pc = "ret", ![t].ret = r, ![t].log = Append(th[t].log, tag)]

ReturnWith(t, r, tag, loc1) ==
  th' = [th EXCEPT ![t].pc = "ret", ![t].ret = r, ![t].log = Append(th[t].log, tag),
                   ![t].loc = loc1]

\* the thread moves to pc1 having issued the step named tag
Goto(t, pc1, tag) ==
  th' = [th EXCEPT ![t].pc = pc1, ![t].log = Append(th[t].log, tag)]

GotoWith(t, pc1, tag, loc1) ==
  th' = [th EXCEPT ![t].pc = pc1, ![t].log = Append(th[t].log, tag), ![t].loc = loc1]

\* Mutex::lock: blocks while another thread holds the guard
Lock(t) == lockHolder = "none" /\ lockHolder' = t

\* Utc::now(): time does not run backwards
NowSet == clock..Min(clock + 1, MaxClock)


(***************************************************************************)
(* BaseRefResolver                                                         *)
(***************************************************************************)
\* str::find(pattern): position of the first occurrence, 0 when absent
RECURSIVE FindSub(_, _, _)
FindSub(s, p, i) ==
  IF i + Len(p) - 1 > Len(s) THEN 0
  ELSE IF SubSeq(s, i, i + Len(p) - 1) = p THEN i
  ELSE FindSub(s, p, i + 1)

HEAD_BRANCH == <<"H","E","A","D"," ","b","r","a","n","c","h",":">>

\* get_default_branch, the loop over the lines of `git remote show origin`
RECURSIVE HeadBranchOf(_)
HeadBranchOf(lines) ==
  IF Len(lines) = 0 THEN MAIN
  ELSE LET idx == FindSub(lines[1], HEAD_BRANCH, 1)
           branch == Trim(SubSeq(lines[1], idx + Len(HEAD_BRANCH), Len(lines[1])))
       IN IF idx > 0 /\ branch # <<>> THEN branch ELSE HeadBranchOf(Tail(lines))

\* get_default_branch; show is the command's stdout lines, None when it failed
get_default_branch(show) ==
  IF show = None THEN MAIN ELSE HeadBranchOf(show[1])

\* what `git remote show origin` may answer
RemoteShowAnswers ==
  { None,
    Some(<< <<"*"," ","r","e","m","o","t","e"," ","o","r","i","g","i","n">>, <<" "," ","H","E","A","D"," ","b","r","a","n","c","h",":"," ","m","a","i","n">> >>),
    Some(<< <<"*"," ","r","e","m","o","t","e"," ","o","r","i","g","i","n">>, <<" "," ","H","E","A","D"," ","b","r","a","n","c","h",":"," ","r","e","l">> >>) }

\* what `git remote` may answer: its stdout lines, None when it failed
ConfiguredRemotes == << ORIGIN >>
RemoteAnswers == { None, Some(ConfiguredRemotes) }

REFS_REMOTES == <<"r","e","f","s","/","r","e","m","o","t","e","s","/">>
REMOTES_SLASH == <<"r","e","m","o","t","e","s","/">>

RECURSIVE JoinWith(_, _)
JoinWith(parts, sep) ==
  IF Len(parts) = 0 THEN <<>>
  ELSE IF Len(parts) = 1 THEN parts[1]
  ELSE parts[1] \o sep \o JoinWith(Tail(parts), sep)

\* a parse_base_ref that accepts an empty remote or branch segment
parse_base_ref_unchecked(raw, has_path, remotes) ==
  LET cleaned == Trim(TrimStartPrefix(TrimStartPrefix(Trim(raw), REFS_REMOTES),
                                      REMOTES_SLASH))
      parts == SplitOn(cleaned, "/", <<>>)
      remote == Trim(parts[1])
      branch == JoinWith(Tail(parts), <<"/">>)
  IN IF cleaned = <<>> \/ FindChar(cleaned, "/", 1) = 0 THEN None
     ELSE IF has_path /\ remotes # None
             /\ ~\E i \in 1..Len(remotes[1]) : Trim(remotes[1][i]) = remote
       THEN None
     ELSE Some(BaseRefInfo(remote, Trim(branch)))

\* parse_base_ref; remotes is the answer of `git remote`, asked only when
\* project_path is Some (has_path)
parse_base_ref(raw, has_path, remotes) ==
  LET cleaned == Trim(TrimStartPrefix(TrimStartPrefix(Trim(raw), REFS_REMOTES),
                                      REMOTES_SLASH))
      parts == SplitOn(cleaned, "/", <<>>)
      remote == Trim(parts[1])
      branch == JoinWith(Tail(parts), <<"/">>)
  IN IF cleaned = <<>> \/ FindChar(cleaned, "/", 1) = 0 THEN None
     ELSE IF remote = <<>> \/ Trim(branch) = <<>> THEN None
     ELSE IF has_path /\ remotes # None
             /\ ~\E i \in 1..Len(remotes[1]) : Trim(remotes[1][i]) = remote
       THEN None
     ELSE Some(BaseRefInfo(remote, Trim(branch)))

\* the git commands resolve_project_base_ref runs for a row (lines 274, 307,
\* 333, 243), in the order it runs them
resolve_commands(row, env) ==
  LET raw == IF row.base_ref = None THEN <<>> ELSE row.base_ref[1]
      cleaned == Trim(TrimStartPrefix(TrimStartPrefix(Trim(raw), REFS_REMOTES),
                                      REMOTES_SLASH))
      parts == SplitOn(cleaned, "/", <<>>)
      asks_remotes ==
        /\ row.base_ref # None
        /\ cleaned # <<>> /\ FindChar(cleaned, "/", 1) # 0
        /\ Trim(parts[1]) # <<>> /\ Trim(JoinWith(Tail(parts), <<"/">>)) # <<>>
      parsed == IF row.base_ref = None THEN None
                ELSE parse_base_ref(raw, TRUE, env.remotes)
      asks_head == /\ row.base_ref # None /\ parsed = None /\ Trim(raw) # <<>>
      is_local == asks_head /\ Trim(raw) \in env.heads
      has_branch == /\ row.git_branch # None
                    /\ Trim(row.git_branch[1]) # <<>>
                    /\ FindChar(Trim(row.git_branch[1]), " ", 1) = 0
  IN (IF asks_remotes THEN << "remote" >> ELSE <<>>)
     \o (IF asks_head THEN << "rev-parse" >> ELSE <<>>)
     \o (IF parsed = None /\ ~is_local /\ ~has_branch THEN << "remote show" >> ELSE <<>>)

\* a resolve_project_base_ref that tries the local branch before the remote form
resolve_local_first(row, env) ==
  LET default_remote ==
        IF row.git_remote # None /\ Trim(row.git_remote[1]) # <<>>
          THEN Trim(row.git_remote[1]) ELSE ORIGIN
      parsed == IF row.base_ref = None THEN None
                ELSE parse_base_ref(row.base_ref[1], TRUE, env.remotes)
      is_local == /\ row.base_ref # None
                  /\ Trim(row.base_ref[1]) # <<>>
                  /\ Trim(row.base_ref[1]) \in env.heads
      fallback_branch ==
        IF /\ row.git_branch # None
           /\ Trim(row.git_branch[1]) # <<>>
           /\ FindChar(Trim(row.git_branch[1]), " ", 1) = 0
          THEN Trim(row.git_branch[1])
          ELSE get_default_branch(env.show)
  IN IF is_local THEN BaseRefInfo(default_remote, Trim(row.base_ref[1]))
     ELSE IF parsed # None THEN parsed[1]
     ELSE BaseRefInfo(default_remote, fallback_branch)

\* resolve_project_base_ref; env holds the answers of the git commands it
\* may run: remotes (`git remote`), heads (the refs/heads/* that
\* `git rev-parse --verify` finds) and show (`git remote show origin`)
resolve_project_base_ref(row, env) ==
  LET default_remote ==
        IF row.git_remote # None /\ Trim(row.git_remote[1]) # <<>>
          THEN Trim(row.git_remote[1]) ELSE ORIGIN
      parsed == IF row.base_ref = None THEN None
                ELSE parse_base_ref(row.base_ref[1], TRUE, env.remotes)
      is_local == /\ row.base_ref # None
                  /\ Trim(row.base_ref[1]) # <<>>
                  /\ Trim(row.base_ref[1]) \in env.heads
      fallback_branch ==
        IF /\ row.git_branch # None
           /\ Trim(row.git_branch[1]) # <<>>
           /\ FindChar(Trim(row.git_branch[1]), " ", 1) = 0
          THEN Trim(row.git_branch[1])
          ELSE get_default_branch(env.show)
  IN IF parsed # None THEN parsed[1]
     ELSE IF is_local THEN BaseRefInfo(default_remote, Trim(row.base_ref[1]))
     ELSE BaseRefInfo(default_remote, fallback_branch)

\* a classification that compares the message as it is written
is_missing_case_sensitive(message) ==
  \/ Contains(message, <<"c","o","u","l","d","n","'","t"," ","f","i","n","d"," ","r","e","m","o","t","e"," ","r","e","f">>)
  \/ Contains(message, <<"c","o","u","l","d"," ","n","o","t"," ","f","i","n","d"," ","r","e","m","o","t","e"," ","r","e","f">>)
  \/ Contains(message, <<"r","e","m","o","t","e"," ","r","e","f"," ","d","o","e","s"," ","n","o","t"," ","e","x","i","s","t">>)
  \/ Contains(message, <<"f","a","t","a","l",":"," ","t","h","e"," ","r","e","m","o","t","e"," ","e","n","d"," ","h","u","n","g"," ","u","p"," ","u","n","e","x","p","e","c","t","e","d","l","y">>)
  \/ Contains(message, <<"n","o"," ","s","u","c","h"," ","r","e","f"," ","w","a","s"," ","f","e","t","c","h","e","d">>)

\* is_missing_remote_ref_error
is_missing_remote_ref_error(message) ==
  LET msg == ToLower(message)
  IN \/ Contains(msg, <<"c","o","u","l","d","n","'","t"," ","f","i","n","d"," ","r","e","m","o","t","e"," ","r","e","f">>)
     \/ Contains(msg, <<"c","o","u","l","d"," ","n","o","t"," ","f","i","n","d"," ","r","e","m","o","t","e"," ","r","e","f">>)
     \/ Contains(msg, <<"r","e","m","o","t","e"," ","r","e","f"," ","d","o","e","s"," ","n","o","t"," ","e","x","i","s","t">>)
     \/ Contains(msg, <<"f","a","t","a","l",":"," ","t","h","e"," ","r","e","m","o","t","e"," ","e","n","d"," ","h","u","n","g"," ","u","p"," ","u","n","e","x","p","e","c","t","e","d","l","y">>)
     \/ Contains(msg, <<"n","o"," ","s","u","c","h"," ","r","e","f"," ","w","a","s"," ","f","e","t","c","h","e","d">>)

\* what `git fetch <remote> <branch>` may answer: None on success, else the
\* error text run_command returns
ERR_NO_REF == <<"f","a","t","a","l",":"," ","c","o","u","l","d","n","'","t"," ","f","i","n","d"," ","r","e","m","o","t","e"," ","r","e","f">>
ERR_NET == <<"f","a","t","a","l",":"," ","u","n","a","b","l","e"," ","t","o"," ","a","c","c","e","s","s">>
FetchAnswers == { None, Some(ERR_NO_REF), Some(ERR_NET) }

Err(kind, parts) == Ret(FALSE, [kind |-> kind, parts |-> parts])
Ok == Ret(TRUE, NoError)


(***************************************************************************)
(* The git commands, as far as the lifecycle depends on them               *)
(***************************************************************************)
\* a branch is checked out in the project directory or in a linked worktree
CheckedOut(b) == b = head \/ \E w \in gitWt : w.branch = b

\* `git worktree add -b <branch> <path> <ref>` can succeed
CanAddNew(branch, path) == branch \notin branches /\ ~exists(path, dirs)

\* `git worktree add <path> <branch>` can succeed
CanAddExisting(branch, path) ==
  branch \in branches /\ ~CheckedOut(branch) /\ ~exists(path, dirs)

\* the effect of a successful `git worktree add`: git records the real path
AddWorktree(branch, path) ==
  /\ dirs' = dirs \cup WithAncestors(path)
  /\ branches' = branches \cup {branch}
  /\ gitWt' = gitWt \cup {[path |-> RealPath(path), branch |-> branch]}

(***************************************************************************)
(* worktree_create (lines 547-655)                                         *)
(***************************************************************************)
TaskNames == {FIX, BLANK}

\* worktree_create is called with one of the given project paths, task names
\* and project ids
CreateCallFor(t, projects, names, ids) ==
  /\ \E pp \in projects, tn \in names, pid \in ids :
       Begin(t, "create",
             [NoArgs EXCEPT !.project_path = pp, !.task_name = tn, !.project_id = pid],
             "c_begin")
  /\ UNCHANGED <<shared, outside, clock>>

CreateCall(t) == CreateCallFor(t, {REPO, BLANK}, TaskNames, {PROJ, BLANK})

\* a worktree_create that does not look whether the target exists
CreateBeginNoExistsCheck(t) ==
  /\ th[t].pc = "c_begin"
  /\ LET project_path == Trim(th[t].args.project_path)
         task_name == Trim(th[t].args.task_name)
         project_id == Trim(th[t].args.project_id)
     IN IF project_path = <<>> \/ task_name = <<>> \/ project_id = <<>>
          THEN /\ Return(t, Err("Missing required parameters", <<>>), "invalid")
               /\ UNCHANGED <<shared, outside, clock, ncalls>>
          ELSE \E now \in NowSet :
            /\ clock' = now
            /\ LET slugged == slugify(task_name)
                   timestamp == to_string(now)
                   branch_name == render_branch_template(template, slugged, timestamp)
                   worktree_path == PathJoin(WorktreesDirOf(project_path),
                                             slugged \o <<"-">> \o timestamp)
                   loc1 == [th[t].loc EXCEPT !.slug = slugged, !.timestamp = now,
                                             !.branch_name = branch_name,
                                             !.worktree_path = worktree_path,
                                             !.name = task_name]
               IN IF exists(worktree_path, {})
                    THEN /\ ReturnWith(t, Err("Worktree directory already exists",
                                              <<worktree_path>>), "conflict", loc1)
                         /\ UNCHANGED <<shared, outside, ncalls>>
                    ELSE \/ /\ dirs' = dirs \cup WithAncestors(parent(worktree_path))
                            /\ GotoWith(t, "c_row", "mkdir_parent", loc1)
                            /\ UNCHANGED <<registry, lockHolder, gitWt, branches, head,
                                           dbRow, outside, ncalls>>
                         \/ /\ Return(t, Err("io", <<>>), "mkdir_parent_failed")
                            /\ UNCHANGED <<shared, outside, ncalls>>

\* a worktree_create whose validation forgets the task name
CreateBeginIgnoringTaskName(t) ==
  /\ th[t].pc = "c_begin"
  /\ LET project_path == Trim(th[t].args.project_path)
         task_name == Trim(th[t].args.task_name)
         project_id == Trim(th[t].args.project_id)
     IN IF project_path = <<>> \/ project_id = <<>>
          THEN /\ Return(t, Err("Missing required parameters", <<>>), "invalid")
               /\ UNCHANGED <<shared, outside, clock, ncalls>>
          ELSE \E now \in NowSet :
            /\ clock' = now
            /\ LET slugged == slugify(task_name)
                   timestamp == to_string(now)
                   branch_name == render_branch_template(template, slugged, timestamp)
                   worktree_path == PathJoin(WorktreesDirOf(project_path),
                                             slugged \o <<"-">> \o timestamp)
                   loc1 == [th[t].loc EXCEPT !.slug = slugged, !.timestamp = now,
                                             !.branch_name = branch_name,
                                             !.worktree_path = worktree_path,
                                             !.name = task_name]
               IN IF exists(worktree_path, dirs)
                    THEN /\ ReturnWith(t, Err("Worktree directory already exists",
                                              <<worktree_path>>), "conflict", loc1)
                         /\ UNCHANGED <<shared, outside, ncalls>>
                    ELSE \/ /\ dirs' = dirs \cup WithAncestors(parent(worktree_path))
                            /\ GotoWith(t, "c_row", "mkdir_parent", loc1)
                            /\ UNCHANGED <<registry, lockHolder, gitWt, branches, head,
                                           dbRow, outside, ncalls>>
                         \/ /\ Return(t, Err("io", <<>>), "mkdir_parent_failed")
                            /\ UNCHANGED <<shared, outside, ncalls>>

\* a worktree_create that creates the target directory, not just its parent
CreateBeginMakingTarget(t) ==
  /\ th[t].pc = "c_begin"
  /\ LET project_path == Trim(th[t].args.project_path)
         task_name == Trim(th[t].args.task_name)
         project_id == Trim(th[t].args.project_id)
     IN IF project_path = <<>> \/ task_name = <<>> \/ project_id = <<>>
          THEN /\ Return(t, Err("Missing required parameters", <<>>), "invalid")
               /\ UNCHANGED <<shared, outside, clock, ncalls>>
          ELSE \E now \in NowSet :
            /\ clock' = now
            /\ LET slugged == slugify(task_name)
                   timestamp == to_string(now)
                   branch_name == render_branch_template(template, slugged, timestamp)
                   worktree_path == PathJoin(WorktreesDirOf(project_path),
                                             slugged \o <<"-">> \o timestamp)
                   loc1 == [th[t].loc EXCEPT !.slug = slugged, !.timestamp = now,
                                             !.branch_name = branch_name,
                                             !.worktree_path = worktree_path,
                                             !.name = task_name]
               IN IF exists(worktree_path, dirs)
                    THEN /\ ReturnWith(t, Err("Worktree directory already exists",
                                              <<worktree_path>>), "conflict", loc1)
                         /\ UNCHANGED <<shared, outside, ncalls>>
                    ELSE \/ /\ dirs' = dirs \cup WithAncestors(worktree_path)
                            /\ GotoWith(t, "c_row", "mkdir_parent", loc1)
                            /\ UNCHANGED <<registry, lockHolder, gitWt, branches, head,
                                           dbRow, outside, ncalls>>
                         \/ /\ Return(t, Err("io", <<>>), "mkdir_parent_failed")
                            /\ UNCHANGED <<shared, outside, ncalls>>

\* lines 553-582: validation, names, the target path, its parent directory
CreateBegin(t) ==
  /\ th[t].pc = "c_begin"
  /\ LET project_path == Trim(th[t].args.project_path)
         task_name == Trim(th[t].args.task_name)
         project_id == Trim(th[t].args.project_id)
     IN IF project_path = <<>> \/ task_name = <<>> \/ project_id = <<>>
          THEN /\ Return(t, Err("Missing required parameters", <<>>), "invalid")
               /\ UNCHANGED <<shared, outside, clock, ncalls>>
          ELSE \E now \in NowSet :
            /\ clock' = now
            /\ LET slugged == slugify(task_name)
                   timestamp == to_string(now)
                   branch_name == render_branch_template(template, slugged, timestamp)
                   worktree_path == PathJoin(WorktreesDirOf(project_path),
                                             slugged \o <<"-">> \o timestamp)
                   loc1 == [th[t].loc EXCEPT !.slug = slugged, !.timestamp = now,
                                             !.branch_name = branch_name,
                                             !.worktree_path = worktree_path,
                                             !.name = task_name]
               IN IF exists(worktree_path, dirs)
                    THEN /\ ReturnWith(t, Err("Worktree directory already exists",
                                              <<worktree_path>>), "conflict", loc1)
                         /\ UNCHANGED <<shared, outside, ncalls>>
                    ELSE \/ /\ dirs' = dirs \cup WithAncestors(parent(worktree_path))
                            /\ GotoWith(t, "c_row", "mkdir_parent", loc1)
                            /\ UNCHANGED <<registry, lockHolder, gitWt, branches, head,
                                           dbRow, outside, ncalls>>
                         \/ /\ Return(t, Err("io", <<>>), "mkdir_parent_failed")
                            /\ UNCHANGED <<shared, outside, ncalls>>

\* lines 585-588: db::project_settings_row
CreateRow(t) ==
  /\ th[t].pc = "c_row"
  /\ \/ GotoWith(t, "c_resolve", "db_row", [th[t].loc EXCEPT !.row = Some(dbRow)])
     \/ Return(t, Err("db", <<>>), "db_row_failed")
  /\ UNCHANGED <<shared, outside, clock, ncalls>>

\* lines 590-593: resolve_project_base_ref
CreateResolve(t) ==
  /\ th[t].pc = "c_resolve"
  /\ \E remotes \in RemoteAnswers, revparse_ok \in BOOLEAN, show \in RemoteShowAnswers :
       LET env == [remotes |-> remotes,
                   heads |-> IF revparse_ok THEN branches ELSE {},
                   show |-> show]
           info == resolve_project_base_ref(th[t].loc.row[1], env)
       IN GotoWith(t, "f_fetch1", "resolve", [th[t].loc EXCEPT !.base_ref = Some(info)])
  /\ UNCHANGED <<shared, outside, clock, ncalls>>

(***************************************************************************)
(* fetch_base_ref_with_fallback (lines 351-396), run by worktree_create    *)
(* and by project_settings_fetch_base_ref                                  *)
(***************************************************************************)
FailedToFetch(base_ref, err) == Err("Failed to fetch", <<base_ref.full_ref, err>>)

\* where the caller continues once a base ref has been fetched
Fetched(t, info, tag, loc1) ==
  IF th[t].op = "create"
    THEN GotoWith(t, "c_add", tag, [loc1 EXCEPT !.fetched = Some(info)])
    ELSE ReturnWith(t, [Ok EXCEPT !.base_ref = Some(info)], tag,
                    [loc1 EXCEPT !.fetched = Some(info)])

\* lines 357-369: the first fetch
FetchFirst(t) ==
  /\ th[t].pc = "f_fetch1"
  /\ \E ans \in FetchAnswers :
       LET base_ref == th[t].loc.base_ref[1]
           loc1 == [th[t].loc EXCEPT !.fetches = Append(@, base_ref.full_ref)]
       IN IF ans = None THEN Fetched(t, base_ref, "fetch_ok", loc1)
          ELSE IF ~is_missing_remote_ref_error(ans[1])
            THEN ReturnWith(t, FailedToFetch(base_ref, ans[1]), "fetch_failed", loc1)
          ELSE GotoWith(t, "f_default", "fetch_missing_ref", [loc1 EXCEPT !.err = ans[1]])
  /\ UNCHANGED <<shared, outside, clock, ncalls>>

\* a fallback that is fetched even when it is the ref that just failed
FetchDefaultAlways(t) ==
  /\ th[t].pc = "f_default"
  /\ \E show \in RemoteShowAnswers :
       LET fallback == BaseRefInfo(ORIGIN, get_default_branch(show))
       IN GotoWith(t, "f_fetch2", "fallback_differs",
                   [th[t].loc EXCEPT !.fallback = Some(fallback)])
  /\ UNCHANGED <<shared, outside, clock, ncalls>>

\* lines 371-380: the fallback ref
FetchDefault(t) ==
  /\ th[t].pc = "f_default"
  /\ \E show \in RemoteShowAnswers :
       LET base_ref == th[t].loc.base_ref[1]
           fallback == BaseRefInfo(ORIGIN, get_default_branch(show))
       IN IF fallback.full_ref = base_ref.full_ref
            THEN Return(t, FailedToFetch(base_ref, th[t].loc.err), "fallback_same")
            ELSE GotoWith(t, "f_fetch2", "fallback_differs",
                          [th[t].loc EXCEPT !.fallback = Some(fallback)])
  /\ UNCHANGED <<shared, outside, clock, ncalls>>

\* a fallback whose ref is written to the project row before it is fetched
FetchFallbackPersistingFirst(t) ==
  /\ th[t].pc = "f_fetch2"
  /\ dbRow' = [dbRow EXCEPT !.base_ref = Some(th[t].loc.fallback[1].full_ref)]
  /\ \E ans \in FetchAnswers :
       LET loc1 == [th[t].loc EXCEPT
                      !.fetches = Append(@, th[t].loc.fallback[1].full_ref),
                      !.persisted = Append(@, th[t].loc.fallback[1].full_ref)]
       IN IF ans = None
            THEN Fetched(t, th[t].loc.fallback[1], "fetch_fallback_ok", loc1)
            ELSE ReturnWith(t, Err("Failed to fetch base branch. Tried",
                                   <<th[t].loc.base_ref[1].full_ref,
                                     th[t].loc.fallback[1].full_ref, ans[1]>>),
                            "fetch_fallback_failed", loc1)
  /\ UNCHANGED <<registry, lockHolder, dirs, gitWt, branches, head, outside, clock, ncalls>>

\* lines 382-392: the fetch of the fallback
FetchFallback(t) ==
  /\ th[t].pc = "f_fetch2"
  /\ \E ans \in FetchAnswers :
       LET loc1 == [th[t].loc EXCEPT
                      !.fetches = Append(@, th[t].loc.fallback[1].full_ref)]
       IN IF ans = None THEN GotoWith(t, "f_persist", "fetch_fallback_ok", loc1)
          ELSE ReturnWith(t, Err("Failed to fetch base branch. Tried",
                                 <<th[t].loc.base_ref[1].full_ref,
                                   th[t].loc.fallback[1].full_ref, ans[1]>>),
                          "fetch_fallback_failed", loc1)
  /\ UNCHANGED <<shared, outside, clock, ncalls>>

\* db::update_project_base_ref as the spec's collaborator contract has it
update_project_base_ref(row, full_ref) == [row EXCEPT !.base_ref = Some(full_ref)]

\* a fallback path that writes back the ref that just failed
FetchPersistFailedRef(t) ==
  /\ th[t].pc = "f_persist"
  /\ dbRow' = update_project_base_ref(dbRow, th[t].loc.base_ref[1].full_ref)
  /\ Fetched(t, th[t].loc.fallback[1], "db_update",
             [th[t].loc EXCEPT !.persisted = Append(@, th[t].loc.base_ref[1].full_ref)])
  /\ UNCHANGED <<registry, lockHolder, dirs, gitWt, branches, head, outside, clock, ncalls>>

\* a fallback path that returns the fallback without writing it back
FetchPersistSkipped(t) ==
  /\ th[t].pc = "f_persist"
  /\ dbRow' = dbRow
  /\ Fetched(t, th[t].loc.fallback[1], "db_update",
             [th[t].loc EXCEPT !.persisted = Append(@, th[t].loc.fallback[1].full_ref)])
  /\ UNCHANGED <<registry, lockHolder, dirs, gitWt, branches, head, outside, clock, ncalls>>

\* lines 394-395
FetchPersist(t) ==
  /\ th[t].pc = "f_persist"
  /\ dbRow' = update_project_base_ref(dbRow, th[t].loc.fallback[1].full_ref)
  /\ Fetched(t, th[t].loc.fallback[1], "db_update",
             [th[t].loc EXCEPT !.persisted = Append(@, th[t].loc.fallback[1].full_ref)])
  /\ UNCHANGED <<registry, lockHolder, dirs, gitWt, branches, head, outside, clock, ncalls>>

\* lines 601-612: git worktree add -b
CreateAdd(t) ==
  /\ th[t].pc = "c_add"
  /\ \/ /\ CanAddNew(th[t].loc.branch_name, th[t].loc.worktree_path)
        /\ AddWorktree(th[t].loc.branch_name, th[t].loc.worktree_path)
        /\ Goto(t, "c_verify", "worktree_add")
        /\ UNCHANGED <<registry, lockHolder, head, dbRow>>
     \/ /\ Return(t, Err("Command failed", <<>>), "worktree_add")
        /\ UNCHANGED shared
  /\ UNCHANGED <<outside, clock, ncalls>>

\* lines 614-624: the directory must exist; the exclude entry and the agent
\* settings file are written inside it
CreateVerify(t) ==
  /\ th[t].pc = "c_verify"
  /\ IF ~exists(th[t].loc.worktree_path, dirs)
       THEN Return(t, Err("Worktree directory was not created",
                          <<th[t].loc.worktree_path>>), "verify")
       ELSE Goto(t, "c_id", "verify")
  /\ UNCHANGED <<shared, outside, clock, ncalls>>

\* lines 626-635: the record, with its stable id
CreateInfo(t) ==
  /\ th[t].pc = "c_id"
  /\ \E now \in NowSet :
       /\ clock' = now
       /\ GotoWith(t, "c_lock", "stable_id",
            [th[t].loc EXCEPT !.info =
               Some(WorktreeInfo(stable_id_from_path(th[t].loc.worktree_path, dirs),
                                 th[t].loc.name, th[t].loc.branch_name,
                                 th[t].loc.worktree_path,
                                 Trim(th[t].args.project_id), now))])
  /\ UNCHANGED <<shared, outside, ncalls>>

\* lines 637-640: state.inner.lock()
CreateLock(t) ==
  /\ th[t].pc = "c_lock"
  /\ Lock(t)
  /\ Goto(t, "c_insert", "lock")
  /\ UNCHANGED <<registry, dirs, gitWt, branches, head, dbRow, outside, clock, ncalls>>

\* an insert through a guard bound to a name, alive until the command returns
CreateInsertKeepingGuard(t) ==
  /\ th[t].pc = "c_insert"
  /\ registry' = (th[t].loc.info[1].id :> th[t].loc.info[1]) @@ registry
  /\ lockHolder' = lockHolder
  /\ Goto(t, "c_push", "insert")
  /\ UNCHANGED <<dirs, gitWt, branches, head, dbRow, outside, clock, ncalls>>

\* line 641: insert; the guard is a temporary and is dropped with the statement
CreateInsert(t) ==
  /\ th[t].pc = "c_insert"
  /\ registry' = (th[t].loc.info[1].id :> th[t].loc.info[1]) @@ registry
  /\ lockHolder' = "none"
  /\ Goto(t, "c_push", "insert")
  /\ UNCHANGED <<dirs, gitWt, branches, head, dbRow, outside, clock, ncalls>>

\* a creation that reports the failure of the push
CreatePushStrict(t) ==
  /\ th[t].pc = "c_push"
  /\ IF pushOnCreate
       THEN \/ Return(t, [Ok EXCEPT !.worktree = th[t].loc.info], "push")
            \/ Return(t, Err("Command failed", <<>>), "push_failed")
       ELSE Return(t, [Ok EXCEPT !.worktree = th[t].loc.info], "no_push")
  /\ UNCHANGED <<shared, outside, clock, ncalls>>

\* lines 643-651: the push when pushOnCreate is set, its result ignored
\* (`let _ =`), then the result
CreatePush(t) ==
  /\ th[t].pc = "c_push"
  /\ IF pushOnCreate
       THEN \/ Return(t, [Ok EXCEPT !.worktree = th[t].loc.info], "push")
            \/ Return(t, [Ok EXCEPT !.worktree = th[t].loc.info], "push_failed")
       ELSE Return(t, [Ok EXCEPT !.worktree = th[t].loc.info], "no_push")
  /\ UNCHANGED <<shared, outside, clock, ncalls>>


(***************************************************************************)
(* worktree_list / list_worktrees_internal (lines 473-544, 657-674)        *)
(***************************************************************************)
RECURSIVE SetToSeq(_)
SetToSeq(S) ==
  IF S = {} THEN <<>>
  ELSE LET x == CHOOSE y \in S : TRUE IN <<x>> \o SetToSeq(S \ {x})

\* one line of `git worktree list`: path, abbreviated commit, [branch]
ListLine(path, branch) == path \o <<" "," ","a","b","c","1","2","3","4"," ","[">> \o branch \o <<"]">>

\* stdout of `git worktree list`: the main worktree first, then the linked ones
WorktreeListOutput(project_path) ==
  <<ListLine(RealPath(project_path), head)>>
    \o SetToSeq({ListLine(w.path, w.branch) : w \in gitWt})

\* line.split_whitespace().next()
FirstToken(line) ==
  LET s == TrimStartMatches(line, {" ", "\t", "\n"})
      ws == {i \in 1..Len(s) : IsWhitespace(s[i])}
  IN IF ws = {} THEN s
     ELSE SubSeq(s, 1, (CHOOSE i \in ws : \A j \in ws : i <= j) - 1)

\* line.split('[').nth(1).and_then(|s| s.split(']').next())
BranchOfLine(line) ==
  LET parts == SplitOn(line, "[", <<>>)
  IN IF Len(parts) < 2 THEN <<"u","n","k","n","o","w","n">>
     ELSE SplitOn(parts[2], "]", <<>>)[1]

\* lines 480-485
managed_prefixes(tmpl) ==
  LET base == << <<"a","g","e","n","t">>, <<"p","r">>, <<"o","r","c","h">> >>
      prefix == extract_template_prefix(tmpl)
  IN IF prefix # <<>> /\ prefix \notin Range(base) THEN Append(base, prefix) ELSE base

\* lines 506-512
is_managed(branch, prefixes) ==
  \E i \in 1..Len(prefixes) :
    \/ StartsWith(branch, prefixes[i] \o <<"/">>)
    \/ StartsWith(branch, prefixes[i] \o <<"-">>)
    \/ StartsWith(branch, prefixes[i])
    \/ StartsWith(branch, prefixes[i] \o <<".">>)
    \/ StartsWith(branch, prefixes[i] \o <<"_">>)

\* tracked.values().find(|wt| wt.path == worktree_path): HashMap iteration
\* order is unspecified; `first` is the key the iteration happens to meet first
FindByPath(tracked, worktree_path, first) ==
  LET hits == {k \in DOMAIN tracked : tracked[k].path = worktree_path}
  IN IF hits = {} THEN None
     ELSE IF first \in hits THEN Some(tracked[first])
     ELSE Some(tracked[CHOOSE k \in hits : TRUE])

\* lines 490-541: the loop over the lines
RECURSIVE ScanLines(_, _, _, _, _, _, _)
ScanLines(lines, tracked, prefixes, project_path, fs, now, first) ==
  IF Len(lines) = 0 THEN <<>>
  ELSE
    LET line == lines[1]
        rest == ScanLines(Tail(lines), tracked, prefixes, project_path, fs, now, first)
        worktree_path == FirstToken(line)
        branch == BranchOfLine(line)
        managed == is_managed(branch, prefixes)
        existing == FindByPath(tracked, worktree_path, first)
    IN IF FindChar(line, "[", 1) = 0 \/ FindChar(line, "]", 1) = 0 THEN rest
       ELSE IF FirstToken(line) = <<>> THEN rest
       ELSE IF ~managed /\ existing = None THEN rest
       ELSE IF existing # None THEN <<existing[1]>> \o rest
       ELSE <<WorktreeInfo(stable_id_from_path(worktree_path, fs),
                           file_name(worktree_path), branch, worktree_path,
                           file_name(project_path), now)>> \o rest

ListCallFor(t, projects) ==
  /\ \E pp \in projects :
       Begin(t, "list", [NoArgs EXCEPT !.project_path = pp], "l_begin")
  /\ UNCHANGED <<shared, outside, clock>>

ListCall(t) == ListCallFor(t, {REPO, BLANK})

\* lines 663-666
ListBegin(t) ==
  /\ th[t].pc = "l_begin"
  /\ IF Trim(th[t].args.project_path) = <<>>
       THEN Return(t, Err("projectPath is required", <<>>), "invalid")
       ELSE Goto(t, "l_git", "valid")
  /\ UNCHANGED <<shared, outside, clock, ncalls>>

\* lines 478-485: git worktree list, then the managed prefixes
ListGit(t) ==
  /\ th[t].pc = "l_git"
  /\ \/ GotoWith(t, "l_lock", "worktree_list",
          [th[t].loc EXCEPT
             !.stdout = WorktreeListOutput(Trim(th[t].args.project_path)),
             !.prefixes = managed_prefixes(template)])
     \/ Return(t, Err("Command failed", <<>>), "worktree_list")
  /\ UNCHANGED <<shared, outside, clock, ncalls>>

\* line 487
ListLock(t) ==
  /\ th[t].pc = "l_lock"
  /\ Lock(t)
  /\ Goto(t, "l_scan", "lock")
  /\ UNCHANGED <<registry, dirs, gitWt, branches, head, dbRow, outside, clock, ncalls>>

\* a listing that stores the records it synthesizes
ListScanStoring(t) ==
  /\ th[t].pc = "l_scan"
  /\ lockHolder' = "none"
  /\ \E now \in NowSet, first \in DOMAIN registry \cup {None} :
       LET found == ScanLines(th[t].loc.stdout, registry, th[t].loc.prefixes,
                              Trim(th[t].args.project_path), dirs, now, first)
           ids == {found[i].id : i \in 1..Len(found)}
       IN /\ clock' = now
          /\ registry' = [k \in DOMAIN registry \cup ids |->
                            IF k \in DOMAIN registry THEN registry[k]
                            ELSE found[CHOOSE i \in 1..Len(found) : found[i].id = k]]
          /\ Return(t, [Ok EXCEPT !.worktrees = found], "scan")
  /\ UNCHANGED <<dirs, gitWt, branches, head, dbRow, outside, ncalls>>

\* lines 488-543: the loop under the guard, dropped on return
ListScan(t) ==
  /\ th[t].pc = "l_scan"
  /\ lockHolder' = "none"
  /\ \E now \in NowSet, first \in DOMAIN registry \cup {None} :
       /\ clock' = now
       /\ Return(t, [Ok EXCEPT !.worktrees =
                       ScanLines(th[t].loc.stdout, registry, th[t].loc.prefixes,
                                 Trim(th[t].args.project_path), dirs, now, first)],
                 "scan")
  /\ UNCHANGED <<registry, dirs, gitWt, branches, head, dbRow, outside, ncalls>>

(***************************************************************************)
(* worktree_get, worktree_get_all (lines 878-906)                          *)
(***************************************************************************)
\* the ids a caller can know: those of the registry and of earlier results
BOGUS_ID == WT_DASH \o <<"0","0","0","0","0","0","0","0","0","0","0","0">>

KnownIds == {w.id : w \in known} \cup {BOGUS_ID}

GetCall(t) ==
  /\ \E id \in KnownIds :
       Begin(t, "get", [NoArgs EXCEPT !.worktree_id = id], "g_lock")
  /\ UNCHANGED <<shared, outside, clock>>

\* line 884
GetLock(t) ==
  /\ th[t].pc = "g_lock"
  /\ Lock(t)
  /\ Goto(t, "g_read", "lock")
  /\ UNCHANGED <<registry, dirs, gitWt, branches, head, dbRow, outside, clock, ncalls>>

\* lines 885-888
GetRead(t) ==
  /\ th[t].pc = "g_read"
  /\ lockHolder' = "none"
  /\ IF th[t].args.worktree_id \in DOMAIN registry
       THEN Return(t, [Ok EXCEPT !.worktree = Some(registry[th[t].args.worktree_id])],
                   "get")
       ELSE Return(t, Err("Worktree not found", <<>>), "get")
  /\ UNCHANGED <<registry, dirs, gitWt, branches, head, dbRow, outside, clock, ncalls>>

GetAllCall(t) ==
  /\ Begin(t, "get_all", NoArgs, "a_lock")
  /\ UNCHANGED <<shared, outside, clock>>

\* line 900
GetAllLock(t) ==
  /\ th[t].pc = "a_lock"
  /\ Lock(t)
  /\ Goto(t, "a_read", "lock")
  /\ UNCHANGED <<registry, dirs, gitWt, branches, head, dbRow, outside, clock, ncalls>>

\* lines 901-902
GetAllRead(t) ==
  /\ th[t].pc = "a_read"
  /\ lockHolder' = "none"
  /\ Return(t, [Ok EXCEPT !.worktrees =
                  SetToSeq({registry[k] : k \in DOMAIN registry})], "get_all")
  /\ UNCHANGED <<registry, dirs, gitWt, branches, head, dbRow, outside, clock, ncalls>>


(***************************************************************************)
(* worktree_remove / worktree_remove_internal (lines 676-774)              *)
(***************************************************************************)
\* what worktree_remove is called with: an id alone, or the id, path and
\* branch of a record the frontend was given; an id that was never issued,
\* alone or with the path of the pull-request workspace
RemoveArgs ==
  {[worktree_id |-> BOGUS_ID, worktree_path |-> p, branch |-> None] :
     p \in {None, Some(PR_PATH)}}
  \cup {[worktree_id |-> w.id, worktree_path |-> None, branch |-> None] : w \in known}
  \cup {[worktree_id |-> w.id, worktree_path |-> Some(w.path),
         branch |-> Some(w.branch)] : w \in known}

\* worktree_remove is called for one of the projects, with one of RemoveArgs
RemoveCallFor(t, projects) ==
  /\ \E pp \in projects, a \in RemoveArgs :
       Begin(t, "remove",
             [NoArgs EXCEPT !.project_path = pp, !.worktree_id = a.worktree_id,
                            !.worktree_path = a.worktree_path, !.branch = a.branch],
             "r_begin")
  /\ UNCHANGED <<shared, outside, clock>>

RemoveCall(t) == RemoveCallFor(t, {REPO, BLANK})

\* worktree_merge ignores what worktree_remove_internal returns (line 862)
RemoveReturn(t, r, tag) == Return(t, IF th[t].loc.in_merge THEN Ok ELSE r, tag)

\* lines 677-680
RemoveBegin(t) ==
  /\ th[t].pc = "r_begin"
  /\ IF Trim(th[t].args.project_path) = <<>>
       THEN Return(t, Err("projectPath is required", <<>>), "invalid")
       ELSE GotoWith(t, "r_lock", "valid",
              [th[t].loc EXCEPT !.rm = [worktree_id |-> th[t].args.worktree_id,
                                        worktree_path |-> th[t].args.worktree_path,
                                        branch |-> th[t].args.branch]])
  /\ UNCHANGED <<shared, outside, clock, ncalls>>

\* line 683
RemoveLock(t) ==
  /\ th[t].pc = "r_lock"
  /\ Lock(t)
  /\ Goto(t, "r_read", "lock")
  /\ UNCHANGED <<registry, dirs, gitWt, branches, head, dbRow, outside, clock, ncalls>>

\* a removal that takes the path from the registry entry only
RemoveReadRegistryOnly(t) ==
  /\ th[t].pc = "r_read"
  /\ lockHolder' = "none"
  /\ LET rm == th[t].loc.rm
         existing == IF rm.worktree_id \in DOMAIN registry
                       THEN Some(registry[rm.worktree_id]) ELSE None
         path_to_remove == IF existing # None THEN existing[1].path ELSE <<>>
         branch_to_delete == IF existing # None THEN Some(existing[1].branch)
                             ELSE rm.branch
     IN IF Trim(path_to_remove) = <<>>
          THEN RemoveReturn(t, Err("Worktree path not provided", <<>>), "read")
          ELSE GotoWith(t, "r_gitremove", "read",
                 [th[t].loc EXCEPT !.existing = existing,
                                   !.path_to_remove = path_to_remove,
                                   !.branch_to_delete = branch_to_delete])
  /\ UNCHANGED <<registry, dirs, gitWt, branches, head, dbRow, outside, clock, ncalls>>

\* a removal that prefers the explicit arguments to the registry entry
RemoveReadArgsFirst(t) ==
  /\ th[t].pc = "r_read"
  /\ lockHolder' = "none"
  /\ LET rm == th[t].loc.rm
         existing == IF rm.worktree_id \in DOMAIN registry
                       THEN Some(registry[rm.worktree_id]) ELSE None
         path_to_remove == IF rm.worktree_path # None THEN rm.worktree_path[1]
                           ELSE IF existing # None THEN existing[1].path
                           ELSE <<>>
         branch_to_delete == IF rm.branch # None THEN rm.branch
                             ELSE IF existing # None THEN Some(existing[1].branch)
                             ELSE None
     IN IF Trim(path_to_remove) = <<>>
          THEN RemoveReturn(t, Err("Worktree path not provided", <<>>), "read")
          ELSE GotoWith(t, "r_gitremove", "read",
                 [th[t].loc EXCEPT !.existing = existing,
                                   !.path_to_remove = path_to_remove,
                                   !.branch_to_delete = branch_to_delete])
  /\ UNCHANGED <<registry, dirs, gitWt, branches, head, dbRow, outside, clock, ncalls>>

\* a removal whose guard outlives the block that reads the entry
RemoveReadKeepingGuard(t) ==
  /\ th[t].pc = "r_read"
  /\ lockHolder' = lockHolder
  /\ LET rm == th[t].loc.rm
         existing == IF rm.worktree_id \in DOMAIN registry
                       THEN Some(registry[rm.worktree_id]) ELSE None
         path_to_remove == IF existing # None THEN existing[1].path
                           ELSE IF rm.worktree_path # None THEN rm.worktree_path[1]
                           ELSE <<>>
         branch_to_delete == IF existing # None THEN Some(existing[1].branch)
                             ELSE rm.branch
     IN IF Trim(path_to_remove) = <<>>
          THEN RemoveReturn(t, Err("Worktree path not provided", <<>>), "read")
          ELSE GotoWith(t, "r_gitremove", "read",
                 [th[t].loc EXCEPT !.existing = existing,
                                   !.path_to_remove = path_to_remove,
                                   !.branch_to_delete = branch_to_delete])
  /\ UNCHANGED <<registry, dirs, gitWt, branches, head, dbRow, outside, clock, ncalls>>

\* lines 684-698: the registry entry, then the path and the branch to remove
RemoveRead(t) ==
  /\ th[t].pc = "r_read"
  /\ lockHolder' = "none"
  /\ LET rm == th[t].loc.rm
         existing == IF rm.worktree_id \in DOMAIN registry
                       THEN Some(registry[rm.worktree_id]) ELSE None
         path_to_remove == IF existing # None THEN existing[1].path
                           ELSE IF rm.worktree_path # None THEN rm.worktree_path[1]
                           ELSE <<>>
         branch_to_delete == IF existing # None THEN Some(existing[1].branch)
                             ELSE rm.branch
     IN IF Trim(path_to_remove) = <<>>
          THEN RemoveReturn(t, Err("Worktree path not provided", <<>>), "read")
          ELSE GotoWith(t, "r_gitremove", "read",
                 [th[t].loc EXCEPT !.existing = existing,
                                   !.path_to_remove = path_to_remove,
                                   !.branch_to_delete = branch_to_delete])
  /\ UNCHANGED <<registry, dirs, gitWt, branches, head, dbRow, outside, clock, ncalls>>

\* lines 701-705: git worktree remove --force; its result is ignored
RemoveGitRemove(t) ==
  /\ th[t].pc = "r_gitremove"
  /\ \/ \E w \in gitWt :
          /\ w.path = RealPath(th[t].loc.path_to_remove)
          /\ dirs' = dirs \ Below(w.path, dirs)
          /\ gitWt' = gitWt \ {w}
     \/ UNCHANGED <<dirs, gitWt>>
  /\ Goto(t, "r_prune", "worktree_remove")
  /\ UNCHANGED <<registry, lockHolder, branches, head, dbRow, outside, clock, ncalls>>

\* `git worktree prune`: forget the worktrees whose directory is gone
Pruned == {w \in gitWt : w.path \in dirs}

\* line 706: git worktree prune; its result is ignored
RemovePrune(t) ==
  /\ th[t].pc = "r_prune"
  /\ \/ gitWt' = Pruned
     \/ gitWt' = gitWt
  /\ Goto(t, "r_rmdir", "prune")
  /\ UNCHANGED <<registry, lockHolder, dirs, branches, head, dbRow, outside, clock, ncalls>>

\* lines 708-710: fs::remove_dir_all when the path exists
RemoveDir(t) ==
  /\ th[t].pc = "r_rmdir"
  /\ IF exists(th[t].loc.path_to_remove, dirs)
       THEN \/ /\ dirs' = dirs \ Below(RealPath(th[t].loc.path_to_remove), dirs)
               /\ Goto(t, "r_branch", "remove_dir_all")
            \/ /\ dirs' = dirs
               /\ Goto(t, "r_chmod", "remove_dir_all")
       ELSE /\ dirs' = dirs
            /\ Goto(t, "r_branch", "absent")
  /\ UNCHANGED <<registry, lockHolder, gitWt, branches, head, dbRow, outside, clock, ncalls>>

\* lines 711-729: attrib / chmod -R u+w
RemoveChmod(t) ==
  /\ th[t].pc = "r_chmod"
  /\ Goto(t, "r_rmdir2", "chmod")
  /\ UNCHANGED <<shared, outside, clock, ncalls>>

\* a removal that goes on when the retried deletion fails too
RemoveDirRetryLenient(t) ==
  /\ th[t].pc = "r_rmdir2"
  /\ \/ dirs' = dirs \ Below(RealPath(th[t].loc.path_to_remove), dirs)
     \/ dirs' = dirs
  /\ Goto(t, "r_branch", "remove_dir_all")
  /\ UNCHANGED <<registry, lockHolder, gitWt, branches, head, dbRow, outside, clock, ncalls>>

\* lines 730-732: the one retry
RemoveDirRetry(t) ==
  /\ th[t].pc = "r_rmdir2"
  /\ \/ /\ dirs' = dirs \ Below(RealPath(th[t].loc.path_to_remove), dirs)
        /\ Goto(t, "r_branch", "remove_dir_all")
     \/ /\ dirs' = dirs
        /\ RemoveReturn(t, Err("io", <<>>), "remove_dir_all")
  /\ UNCHANGED <<registry, lockHolder, gitWt, branches, head, dbRow, outside, clock, ncalls>>

\* lines 736-743: git branch -D
RemoveBranch(t) ==
  /\ th[t].pc = "r_branch"
  /\ IF th[t].loc.branch_to_delete = None
       THEN /\ Goto(t, "r_unreg", "no_branch")
            /\ UNCHANGED branches
       ELSE LET branch == th[t].loc.branch_to_delete[1]
            IN \/ /\ branch \in branches /\ ~CheckedOut(branch)
                  /\ branches' = branches \ {branch}
                  /\ Goto(t, "r_pushdel", "branch_delete")
               \/ /\ CheckedOut(branch)      \* "... checked out at ..."
                  /\ UNCHANGED branches
                  /\ Goto(t, "r_prune2", "branch_delete")
               \/ /\ UNCHANGED branches      \* any other error
                  /\ Goto(t, "r_pushdel", "branch_delete")
  /\ UNCHANGED <<registry, lockHolder, dirs, gitWt, head, dbRow, outside, clock, ncalls>>

\* line 740
RemovePruneAgain(t) ==
  /\ th[t].pc = "r_prune2"
  /\ \/ gitWt' = Pruned
     \/ gitWt' = gitWt
  /\ Goto(t, "r_branch2", "prune")
  /\ UNCHANGED <<registry, lockHolder, dirs, branches, head, dbRow, outside, clock, ncalls>>

\* a removal for which a branch that cannot be deleted on the retry is fatal
RemoveBranchAgainFatal(t) ==
  /\ th[t].pc = "r_branch2"
  /\ LET branch == th[t].loc.branch_to_delete[1]
     IN \/ /\ branch \in branches /\ ~CheckedOut(branch)
           /\ branches' = branches \ {branch}
           /\ Goto(t, "r_pushdel", "branch_delete")
        \/ /\ UNCHANGED branches
           /\ RemoveReturn(t, Err("Command failed", <<>>), "branch_delete")
  /\ UNCHANGED <<registry, lockHolder, dirs, gitWt, head, dbRow, outside, clock, ncalls>>

\* line 741
RemoveBranchAgain(t) ==
  /\ th[t].pc = "r_branch2"
  /\ LET branch == th[t].loc.branch_to_delete[1]
     IN \/ /\ branch \in branches /\ ~CheckedOut(branch)
           /\ branches' = branches \ {branch}
        \/ UNCHANGED branches
  /\ Goto(t, "r_pushdel", "branch_delete")
  /\ UNCHANGED <<registry, lockHolder, dirs, gitWt, head, dbRow, outside, clock, ncalls>>

\* str::strip_prefix(..).unwrap_or(s)
strip_prefix(s, p) == IF StartsWith(s, p) THEN SubSeq(s, Len(p) + 1, Len(s)) ELSE s

\* a removal that pushes the deletion of the branch as it was named
RemovePushDeleteAsNamed(t) ==
  /\ th[t].pc = "r_pushdel"
  /\ GotoWith(t, "r_unreg", "push_delete",
       [th[t].loc EXCEPT !.push_deleted = Append(@, th[t].loc.branch_to_delete[1])])
  /\ UNCHANGED <<shared, outside, clock, ncalls>>

\* lines 745-753: git push origin --delete <remote_branch>; its result is
\* ignored
RemovePushDelete(t) ==
  /\ th[t].pc = "r_pushdel"
  /\ LET branch == th[t].loc.branch_to_delete[1]
         remote_branch == strip_prefix(branch, ORIGIN \o <<"/">>)
     IN GotoWith(t, "r_unreg", "push_delete",
          [th[t].loc EXCEPT !.push_deleted = Append(@, remote_branch)])
  /\ UNCHANGED <<shared, outside, clock, ncalls>>

\* lines 756-757, 761
RemoveUnregLock(t) ==
  /\ th[t].pc = "r_unreg"
  /\ IF th[t].loc.existing # None
       THEN /\ Lock(t)
            /\ Goto(t, "r_unreg2", "lock")
       ELSE /\ UNCHANGED lockHolder
            /\ RemoveReturn(t, Ok, "done")
  /\ UNCHANGED <<registry, dirs, gitWt, branches, head, dbRow, outside, clock, ncalls>>

\* HashMap::remove
MapRemove(m, k) == [x \in DOMAIN m \ {k} |-> m[x]]

\* lines 758-761
RemoveUnreg(t) ==
  /\ th[t].pc = "r_unreg2"
  /\ registry' = MapRemove(registry, th[t].loc.rm.worktree_id)
  /\ lockHolder' = "none"
  /\ RemoveReturn(t, Ok, "unregister")
  /\ UNCHANGED <<dirs, gitWt, branches, head, dbRow, outside, clock, ncalls>>


(***************************************************************************)
(* worktree_merge (lines 835-876)                                          *)
(***************************************************************************)
MergeCallFor(t, projects) ==
  /\ \E pp \in projects, id \in KnownIds :
       Begin(t, "merge", [NoArgs EXCEPT !.project_path = pp, !.worktree_id = id],
             "m_begin")
  /\ UNCHANGED <<shared, outside, clock>>

MergeCall(t) == MergeCallFor(t, {REPO, BLANK})

\* lines 841-844
MergeBegin(t) ==
  /\ th[t].pc = "m_begin"
  /\ IF Trim(th[t].args.project_path) = <<>>
       THEN Return(t, Err("projectPath is required", <<>>), "invalid")
       ELSE Goto(t, "m_lock", "valid")
  /\ UNCHANGED <<shared, outside, clock, ncalls>>

\* line 846
MergeLock(t) ==
  /\ th[t].pc = "m_lock"
  /\ Lock(t)
  /\ Goto(t, "m_read", "lock")
  /\ UNCHANGED <<registry, dirs, gitWt, branches, head, dbRow, outside, clock, ncalls>>

\* a merge that goes on, like remove, when the id is not registered
MergeReadUntracked(t) ==
  /\ th[t].pc = "m_read"
  /\ lockHolder' = "none"
  /\ IF th[t].args.worktree_id \in DOMAIN registry
       THEN GotoWith(t, "m_default", "read",
              [th[t].loc EXCEPT !.info = Some(registry[th[t].args.worktree_id])])
       ELSE GotoWith(t, "m_default", "read",
              [th[t].loc EXCEPT !.info =
                 Some(WorktreeInfo(th[t].args.worktree_id, <<>>, MAIN, PR_PATH, <<>>, 0))])
  /\ UNCHANGED <<registry, dirs, gitWt, branches, head, dbRow, outside, clock, ncalls>>

\* lines 847-851: the guard is dropped on both paths
MergeRead(t) ==
  /\ th[t].pc = "m_read"
  /\ lockHolder' = "none"
  /\ IF th[t].args.worktree_id \in DOMAIN registry
       THEN GotoWith(t, "m_default", "read",
              [th[t].loc EXCEPT !.info = Some(registry[th[t].args.worktree_id])])
       ELSE Return(t, Err("Worktree not found", <<>>), "read")
  /\ UNCHANGED <<registry, dirs, gitWt, branches, head, dbRow, outside, clock, ncalls>>

\* line 854: get_default_branch
MergeDefault(t) ==
  /\ th[t].pc = "m_default"
  /\ \E show \in RemoteShowAnswers :
       GotoWith(t, "m_checkout", "remote_show",
                [th[t].loc EXCEPT !.default_branch = get_default_branch(show)])
  /\ UNCHANGED <<shared, outside, clock, ncalls>>

\* lines 855-857: git checkout <default branch> in the project directory
MergeCheckout(t) ==
  /\ th[t].pc = "m_checkout"
  /\ \/ /\ head' = th[t].loc.default_branch
        /\ branches' = branches \cup {th[t].loc.default_branch}
        /\ Goto(t, "m_merge", "checkout")
     \/ /\ UNCHANGED <<head, branches>>
        /\ Return(t, Err("Command failed", <<>>), "checkout")
  /\ UNCHANGED <<registry, lockHolder, dirs, gitWt, dbRow, outside, clock, ncalls>>

\* the locals with which worktree_remove_internal is entered (lines 862-869)
MergeRemoval(t) ==
  [th[t].loc EXCEPT
     !.in_merge = TRUE,
     !.rm = [worktree_id |-> th[t].loc.info[1].id,
             worktree_path |-> Some(th[t].loc.info[1].path),
             branch |-> Some(th[t].loc.info[1].branch)]]

\* a merge whose failure does not stop the removal
MergeMergeThenRemoveAnyway(t) ==
  /\ th[t].pc = "m_merge"
  /\ \/ /\ th[t].loc.info[1].branch \in branches
        /\ GotoWith(t, "r_lock", "merge_ok", MergeRemoval(t))
     \/ GotoWith(t, "r_lock", "merge_failed", MergeRemoval(t))
  /\ UNCHANGED <<shared, outside, clock, ncalls>>

\* lines 858-870: git merge <branch>, then the removal of the worktree
MergeMerge(t) ==
  /\ th[t].pc = "m_merge"
  /\ \/ /\ th[t].loc.info[1].branch \in branches
        /\ GotoWith(t, "r_lock", "merge_ok", MergeRemoval(t))
     \/ Return(t, Err("Command failed", <<>>), "merge_failed")
  /\ UNCHANGED <<shared, outside, clock, ncalls>>

(***************************************************************************)
(* create_worktree_from_branch (lines 908-977), called by                  *)
(* github_create_pull_request_worktree (github.rs 885-893)                 *)
(***************************************************************************)
\* create_worktree_from_branch is called with one of the given task names,
\* branch names and explicit paths
FromBranchCallFor(t, names, branch_names, paths) ==
  /\ \E tn \in names, bn \in branch_names, wp \in paths :
       Begin(t, "fromBranch",
             [NoArgs EXCEPT !.project_path = REPO, !.task_name = tn,
                            !.branch_name = bn, !.project_id = PROJ,
                            !.worktree_path = wp],
             "b_begin")
  /\ UNCHANGED <<shared, outside, clock>>

FromBranchCall(t) ==
  FromBranchCallFor(t, {PR_SLUG, BLANK}, {PR_BRANCH, BLANK}, {None, Some(PR_PATH)})

\* the call github_create_pull_request_worktree makes (github.rs 885-893)
PullRequestCall(t) == FromBranchCallFor(t, {PR_SLUG}, {PR_BRANCH}, {Some(PR_PATH)})

\* lines 912-939
FromBranchBegin(t) ==
  /\ th[t].pc = "b_begin"
  /\ LET project_path == Trim(th[t].args.project_path)
         branch_name == Trim(th[t].args.branch_name)
         project_id == Trim(th[t].args.project_id)
     IN IF project_path = <<>> \/ branch_name = <<>> \/ project_id = <<>>
          THEN /\ Return(t, Err("Missing required parameters", <<>>), "invalid")
               /\ UNCHANGED <<shared, outside, clock, ncalls>>
          ELSE \E now \in NowSet :
            /\ clock' = now
            /\ LET normalized_name ==
                     IF Trim(th[t].args.task_name) = <<>>
                       THEN ReplaceAll(branch_name, <<"/">>, <<"-">>)
                       ELSE Trim(th[t].args.task_name)
                   slugged == slugify(normalized_name)
                   default_path == PathJoin(WorktreesDirOf(project_path),
                                            slugged \o <<"-">> \o to_string(now))
                   worktree_path == IF th[t].args.worktree_path # None
                                      THEN th[t].args.worktree_path[1]
                                      ELSE default_path
                   loc1 == [th[t].loc EXCEPT !.slug = slugged, !.timestamp = now,
                                             !.branch_name = branch_name,
                                             !.worktree_path = worktree_path,
                                             !.name = normalized_name]
               IN IF exists(worktree_path, dirs)
                    THEN /\ Return(t, Err("Worktree directory already exists",
                                          <<worktree_path>>), "conflict")
                         /\ UNCHANGED <<shared, outside, ncalls>>
                    ELSE \/ /\ dirs' = dirs \cup WithAncestors(parent(worktree_path))
                            /\ GotoWith(t, "b_add", "mkdir_parent", loc1)
                            /\ UNCHANGED <<registry, lockHolder, gitWt, branches, head,
                                           dbRow, outside, ncalls>>
                         \/ /\ GotoWith(t, "b_add", "mkdir_parent_failed", loc1)
                            /\ UNCHANGED <<shared, outside, ncalls>>

\* lines 941-951: git worktree add <path> <branch>
FromBranchAdd(t) ==
  /\ th[t].pc = "b_add"
  /\ \/ /\ CanAddExisting(th[t].loc.branch_name, th[t].loc.worktree_path)
        /\ AddWorktree(th[t].loc.branch_name, th[t].loc.worktree_path)
        /\ Goto(t, "b_verify", "worktree_add")
        /\ UNCHANGED <<registry, lockHolder, head, dbRow>>
     \/ /\ Return(t, Err("Failed to create worktree for branch",
                         <<th[t].loc.branch_name>>), "worktree_add")
        /\ UNCHANGED shared
  /\ UNCHANGED <<outside, clock, ncalls>>

\* lines 953-957
FromBranchVerify(t) ==
  /\ th[t].pc = "b_verify"
  /\ IF ~exists(th[t].loc.worktree_path, dirs)
       THEN Return(t, Err("Worktree directory was not created",
                          <<th[t].loc.worktree_path>>), "verify")
       ELSE Goto(t, "b_id", "verify")
  /\ UNCHANGED <<shared, outside, clock, ncalls>>

\* lines 959-968
FromBranchInfo(t) ==
  /\ th[t].pc = "b_id"
  /\ \E now \in NowSet :
       /\ clock' = now
       /\ GotoWith(t, "b_lock", "stable_id",
            [th[t].loc EXCEPT !.info =
               Some(WorktreeInfo(stable_id_from_path(th[t].loc.worktree_path, dirs),
                                 th[t].loc.name, th[t].loc.branch_name,
                                 th[t].loc.worktree_path,
                                 Trim(th[t].args.project_id), now))])
  /\ UNCHANGED <<shared, outside, ncalls>>

\* lines 970-973
FromBranchLock(t) ==
  /\ th[t].pc = "b_lock"
  /\ Lock(t)
  /\ Goto(t, "b_insert", "lock")
  /\ UNCHANGED <<registry, dirs, gitWt, branches, head, dbRow, outside, clock, ncalls>>

\* lines 974-976
FromBranchInsert(t) ==
  /\ th[t].pc = "b_insert"
  /\ registry' = (th[t].loc.info[1].id :> th[t].loc.info[1]) @@ registry
  /\ lockHolder' = "none"
  /\ Return(t, [Ok EXCEPT !.worktree = th[t].loc.info], "insert")
  /\ UNCHANGED <<dirs, gitWt, branches, head, dbRow, outside, clock, ncalls>>

(***************************************************************************)
(* project_settings_fetch_base_ref (lines 979-1013)                        *)
(***************************************************************************)
FetchBaseRefCallFor(t, projects, ids) ==
  /\ \E pp \in projects, pid \in ids :
       Begin(t, "fetchBaseRef",
             [NoArgs EXCEPT !.project_path = pp, !.project_id = pid], "s_begin")
  /\ UNCHANGED <<shared, outside, clock>>

FetchBaseRefCall(t) == FetchBaseRefCallFor(t, {REPO, BLANK}, {PROJ, BLANK})

\* lines 985-994
FetchBaseRefBegin(t) ==
  /\ th[t].pc = "s_begin"
  /\ IF Trim(th[t].args.project_id) = <<>> \/ Trim(th[t].args.project_path) = <<>>
       THEN Return(t, Err("projectId and projectPath are required", <<>>), "invalid")
       ELSE \/ GotoWith(t, "c_resolve", "db_row", [th[t].loc EXCEPT !.row = Some(dbRow)])
            \/ Return(t, Err("db", <<>>), "db_row_failed")
  /\ UNCHANGED <<shared, outside, clock, ncalls>>

(***************************************************************************)
(* The result reaches the frontend (the serialized WorktreeInfo records,   *)
(* lines 15-27), which remembers the workspaces it was told about.         *)
(***************************************************************************)
Told(r) ==
  {[id |-> w.id, path |-> w.path, branch |-> w.branch] :
     w \in Range(r.worktree) \cup Range(r.worktrees)}

IdOf(t) ==
  IF th[t].ret.worktree # None THEN th[t].ret.worktree[1].id
  ELSE th[t].args.worktree_id

Deliver(t) ==
  /\ th[t].pc = "ret"
  /\ known' = known \cup Told(th[t].ret)
  /\ th' = [th EXCEPT ![t] =
       [IdleThread EXCEPT !.prev =
          [op |-> th[t].op, ok |-> th[t].ret.success, args |-> th[t].args,
           id |-> IdOf(t), found |-> th[t].loc.existing # None,
           path |-> th[t].loc.path_to_remove,
           synth |-> {w.id : w \in Range(th[t].ret.worktrees)} \ DOMAIN registry,
           fell_back |->
             IF th[t].loc.fallback # None /\ th[t].loc.fetched = th[t].loc.fallback
               THEN Some([from |-> th[t].loc.base_ref[1], to |-> th[t].loc.fallback[1]])
               ELSE None]]]
  /\ UNCHANGED <<shared, fixed, clock, ncalls>>

(***************************************************************************)
(* The process ends and starts again: the registry starts empty            *)
(* (main.rs line 130), everything on disk stays.                           *)
(***************************************************************************)
Restart ==
  /\ \A t \in Threads : th[t].pc = "idle"
  /\ registry # EmptyMap
  /\ registry' = EmptyMap
  /\ th' = [t \in Threads |-> [th[t] EXCEPT !.prev = [@ EXCEPT !.op = "restart"]]]
  /\ UNCHANGED <<lockHolder, dirs, gitWt, branches, head, dbRow, outside, clock,
                 ncalls>>

(***************************************************************************)
(* Specifications                                                          *)
(***************************************************************************)
ORIGIN_REL == ORIGIN \o <<"/","r","e","l">>

InitShared ==
  /\ registry = EmptyMap
  /\ lockHolder = "none"
  /\ dirs = {ROOT, REPO}
  /\ gitWt = {}
  /\ branches = {MAIN, PR_BRANCH}
  /\ head = MAIN
  /\ clock = 1
  /\ ncalls = 0
  /\ known = {}
  /\ th = [t \in Threads |-> IdleThread]

\* the project row, and the settings at their defaults (lines 455-471)
InitProgram ==
  /\ InitShared
  /\ dbRow = [git_remote |-> None, git_branch |-> None, base_ref |-> Some(ORIGIN_REL)]
  /\ template = DEFAULT_TEMPLATE
  /\ pushOnCreate = TRUE

Init ==
  /\ InitProgram
  /\ input = None
  /\ output = None

\* the steps of the commands, by command
CreateStep(t) ==
  \/ CreateBegin(t) \/ CreateRow(t) \/ CreateAdd(t) \/ CreateVerify(t)
  \/ CreateInfo(t) \/ CreateLock(t) \/ CreateInsert(t) \/ CreatePush(t)

FetchStep(t) ==
  \/ CreateResolve(t) \/ FetchFirst(t) \/ FetchDefault(t) \/ FetchFallback(t)
  \/ FetchPersist(t)

ListStep(t) == ListBegin(t) \/ ListGit(t) \/ ListLock(t) \/ ListScan(t)

GetStep(t) == GetLock(t) \/ GetRead(t) \/ GetAllLock(t) \/ GetAllRead(t)

RemoveStep(t) ==
  \/ RemoveBegin(t) \/ RemoveLock(t) \/ RemoveRead(t)
  \/ RemoveGitRemove(t) \/ RemovePrune(t) \/ RemoveDir(t) \/ RemoveChmod(t)
  \/ RemoveDirRetry(t) \/ RemoveBranch(t) \/ RemovePruneAgain(t)
  \/ RemoveBranchAgain(t) \/ RemovePushDelete(t) \/ RemoveUnregLock(t)
  \/ RemoveUnreg(t)

MergeStep(t) ==
  \/ MergeBegin(t) \/ MergeLock(t) \/ MergeRead(t)
  \/ MergeDefault(t) \/ MergeCheckout(t) \/ MergeMerge(t)

FromBranchStep(t) ==
  \/ FromBranchBegin(t) \/ FromBranchAdd(t)
  \/ FromBranchVerify(t) \/ FromBranchInfo(t) \/ FromBranchLock(t)
  \/ FromBranchInsert(t)

\* a started command runs on, and its result is delivered
Run(t) ==
  \/ CreateStep(t) \/ FetchStep(t) \/ ListStep(t) \/ GetStep(t) \/ RemoveStep(t)
  \/ MergeStep(t) \/ FromBranchStep(t) \/ FetchBaseRefBegin(t) \/ Deliver(t)

\* a command is called, with arguments that may be blank
Call(t) ==
  \/ CreateCall(t) \/ ListCall(t) \/ GetCall(t) \/ GetAllCall(t) \/ RemoveCall(t)
  \/ MergeCall(t) \/ FromBranchCall(t) \/ FetchBaseRefCall(t)

\* a command is called with the arguments of a well-formed request
CallWellFormed(t) ==
  \/ CreateCallFor(t, {REPO}, {FIX}, {PROJ}) \/ ListCallFor(t, {REPO})
  \/ GetCall(t) \/ GetAllCall(t) \/ RemoveCallFor(t, {REPO})
  \/ MergeCallFor(t, {REPO}) \/ PullRequestCall(t)
  \/ FetchBaseRefCallFor(t, {REPO}, {PROJ})

\* one caller at a time: every command returns before the next is started
InitSeq == Init /\ budget = MaxCalls

NextSeq == Call("t1") \/ Run("t1") \/ Restart

SpecSeq == InitSeq /\ [][NextSeq]_vars

\* two callers at once: the commands interleave step by step
InitConcurrent == Init /\ budget = MaxThreadCalls

Next == \E t \in Threads : CallWellFormed(t) \/ Run(t)

Spec == InitConcurrent /\ [][Next]_vars

\* two callers at once that create workspaces from a branch and remove them
InitRace == Init /\ budget = MaxRaceCalls

NextRace ==
  \E t \in Threads :
    \/ PullRequestCall(t) \/ FromBranchStep(t)
    \/ RemoveCallFor(t, {REPO}) \/ RemoveStep(t)
    \/ Deliver(t)

SpecRace == InitRace /\ [][NextRace]_vars

\* workspaces are created from a branch and removed, one command at a time
InitLife == Init /\ budget = MaxLifeCalls

NextLife ==
  \/ FromBranchCall("t1") \/ FromBranchStep("t1")
  \/ RemoveCall("t1") \/ RemoveStep("t1")
  \/ Deliver("t1")

SpecLife == InitLife /\ [][NextLife]_vars

(***************************************************************************)
(* render_branch_template applied on its own                               *)
(***************************************************************************)
MaxTokens == 3      \* a template is made of at most MaxTokens pieces

TemplateTokens ==
  { <<"/">>, <<"-">>, <<".">>, <<" ">>, <<"_">>, <<"a">>, <<"~">>, HEAD, SLUG_PH, TS_PH }

Templates == {Flatten(f) : f \in UNION {[1..n -> TemplateTokens] : n \in 0..MaxTokens}}

Slugs == { <<>>, <<"f","x">>, <<"a","-","b">>, <<"/","x">>, <<"-",".">>, HEAD, TS_PH }

Timestamps == { <<"1","7">>, <<>>, <<"-">> }

\* the default template rendered for a task "Fix bug" at 1700000000000 ms
FIX_BUG == <<"f","i","x","-","b","u","g">>
TS_2023 == <<"1","7","0","0","0","0","0","0","0","0","0","0","0">>
DefaultRender ==
  [fn |-> "render_branch_template", template |-> DEFAULT_TEMPLATE, slug |-> FIX_BUG,
   timestamp |-> TS_2023]

NamerInputs ==
  {[fn |-> "render_branch_template", template |-> tp, slug |-> sl, timestamp |-> ts] :
     tp \in Templates, sl \in Slugs, ts \in Timestamps} \cup {DefaultRender}

InitNamer ==
  /\ InitProgram
  /\ budget = 0
  /\ input \in NamerInputs
  /\ output = None

Render ==
  /\ input.fn = "render_branch_template"
  /\ output = None
  /\ output' = Some(render_branch_template(input.template, input.slug, input.timestamp))
  /\ UNCHANGED <<shared, template, pushOnCreate, budget, input, known, clock, ncalls, th>>

SpecNamer == InitNamer /\ [][Render]_vars

Rendered == output # None /\ input.fn = "render_branch_template"

\* C10: whatever the template, the slug and the timestamp, the rendered branch
\* name has no "//", neither starts nor ends with '/', '.' or '-', is not
\* empty and is not "HEAD"
RenderedNameIsClean ==
  Rendered =>
    LET name == output[1]
    IN /\ ~Contains(name, <<"/","/">>)
       /\ name # <<>>
       /\ name[1] \notin {"/", ".", "-"}
       /\ name[Len(name)] \notin {"/", ".", "-"}
       /\ name # HEAD

\* a template that has a doubled slash once the slug is in was rendered to a
\* name of its own
RenderedDoubleSlash ==
  /\ Rendered
  /\ input.template = <<"a","/">> \o SLUG_PH
  /\ input.slug = <<"/","x">>
  /\ output[1] = <<"a","/","x">>

\* the template with both placeholders substituted (line 211)
Substituted ==
  ReplaceAll(ReplaceAll(input.template, SLUG_PH, input.slug), TS_PH, input.timestamp)

\* a branch name that needs no cleaning: only [A-Za-z0-9._/-], no "//", no "--",
\* neither end is '.', '/' or '-', and it is not "HEAD"
IsValidName(name) ==
  /\ name # <<>>
  /\ \A i \in 1..Len(name) : IsAsciiAlnum(name[i]) \/ name[i] \in {".", "_", "/", "-"}
  /\ ~Contains(name, <<"/","/">>)
  /\ ~Contains(name, <<"-","-">>)
  /\ name[1] \notin {".", "/", "-"}
  /\ name[Len(name)] \notin {".", "/", "-"}
  /\ name # HEAD

\* C11: when the template with {slug} and {timestamp} substituted is already a
\* valid name, render returns it unchanged; "agent/{slug}-{timestamp}" with slug
\* "fix-bug" and timestamp "1700000000000" renders to
\* "agent/fix-bug-1700000000000"
ValidNameRendersUnchanged ==
  Rendered =>
    /\ IsValidName(Substituted) => output[1] = Substituted
    /\ input = DefaultRender => output[1] = <<"a","g","e","n","t","/","f","i","x","-","b","u","g","-","1","7","0","0","0","0","0","0","0","0","0","0","0">>

\* the default template was rendered for "fix-bug", and it was valid as substituted
DefaultTemplateRendered ==
  /\ Rendered
  /\ input = DefaultRender
  /\ IsValidName(Substituted)
  /\ Len(output[1]) = 27

(***************************************************************************)
(* stable_id_from_path applied on its own, while directories come and go   *)
(***************************************************************************)
\* path strings of one workspace directory, and of the project directory
WT_X_RAW == PathJoin(WorktreesDirOf(REPO), <<"x">>)       \* as worktree_create spells it
WT_X == <<"/","w","o","r","k","t","r","e","e","s","/","x">>
WT_X_DOT == <<"/","w","o","r","k","t","r","e","e","s","/",".","/","x">>

IdPaths == {WT_X_RAW, WT_X, WT_X_DOT, REPO}

IdInputs ==
  {[fn |-> "stable_id_from_path", path |-> p, other |-> q] : p \in IdPaths, q \in IdPaths}

InitId ==
  /\ InitProgram
  /\ budget = 0
  /\ input \in IdInputs
  /\ output = {}

\* fs::create_dir_all, as `git worktree add` and worktree_create do it
MakeDir ==
  /\ input.fn = "stable_id_from_path"
  /\ \E p \in {input.path, input.other} :
       /\ ~exists(p, dirs)
       /\ dirs' = dirs \cup WithAncestors(p)
  /\ UNCHANGED <<registry, lockHolder, gitWt, branches, head, dbRow, fixed, known,
                 clock, ncalls, th>>

\* fs::remove_dir_all, as worktree_remove_internal does it
DeleteDir ==
  /\ input.fn = "stable_id_from_path"
  /\ \E p \in {input.path, input.other} :
       /\ exists(p, dirs)
       /\ RealPath(p) # REPO
       /\ dirs' = dirs \ Below(RealPath(p), dirs)
  /\ UNCHANGED <<registry, lockHolder, gitWt, branches, head, dbRow, fixed, known,
                 clock, ncalls, th>>

\* the ids of both strings, computed one after the other; `resolved` keeps
\* what the two strings resolved to at that moment
ComputeIds ==
  /\ input.fn = "stable_id_from_path"
  /\ output' = output \cup
       {[id |-> stable_id_from_path(input.path, dirs),
         other_id |-> stable_id_from_path(input.other, dirs),
         resolved |-> <<canonicalize(input.path, dirs), canonicalize(input.other, dirs)>>]}
  /\ UNCHANGED <<shared, template, pushOnCreate, budget, input, known, clock, ncalls, th>>

NextId == MakeDir \/ DeleteDir \/ ComputeIds

SpecId == InitId /\ [][NextId]_vars

IdsComputed == input # None /\ input.fn = "stable_id_from_path"

\* C7: the id computed for a path string is the same each time it is
\* computed, whether or not the directory exists at that time
IdOfPathNeverChanges ==
  IdsComputed => \A o1 \in output, o2 \in output : o1.id = o2.id

IsStableIdForm(id) ==
  /\ Len(id) = 15
  /\ SubSeq(id, 1, 3) = WT_DASH
  /\ \A i \in 4..15 : id[i] \in Range(HexSeq)

\* C8: two path strings that resolve to the same canonical path get the same
\* id, and an id is "wt-" followed by 12 hex digits
SameCanonicalPathSameId ==
  IdsComputed =>
    \A o \in output :
      /\ IsStableIdForm(o.id) /\ IsStableIdForm(o.other_id)
      /\ (o.resolved[1][1] /\ o.resolved[2][1] /\ o.resolved[1][2] = o.resolved[2][2])
           => o.id = o.other_id

\* the ids of two different spellings of an existing directory were computed
TwoSpellingsResolved ==
  /\ IdsComputed
  /\ input.path = WT_X_RAW /\ input.other = WT_X_DOT
  /\ \E o \in output : o.resolved[1] = <<TRUE, WT_X>> /\ o.resolved[2] = <<TRUE, WT_X>>

(***************************************************************************)
(* Properties of the commands run one after the other                      *)
(***************************************************************************)
\* thread t has the result of op in hand
Returned(t, op) == th[t].pc = "ret" /\ th[t].op = op

\* t's previous command, in this process, was a successful worktree_create
\* and the registry holds nothing but the record it returned
AfterCreateAlone(t) ==
  /\ th[t].prev.op = "create" /\ th[t].prev.ok
  /\ DOMAIN registry = {th[t].prev.id}

\* C1: after a successful create in a process whose registry was empty, list
\* returns exactly one entry whose path is the path create returned
ListShowsCreatedPath ==
  \A t \in Threads :
    (Returned(t, "list") /\ th[t].ret.success /\ AfterCreateAlone(t)) =>
      LET created == registry[th[t].prev.id]
          found == th[t].ret.worktrees
      IN Cardinality({i \in 1..Len(found) : found[i].path = created.path}) = 1

\* the entries of a list result that stand for the workspace directory of w
EntriesFor(found, w) ==
  {i \in 1..Len(found) : RealPath(found[i].path) = RealPath(w.path)}

\* C6: a list that follows a create in the same process returns the record
\* create registered, field by field, and no synthesized record for it
ListReturnsRegisteredRecord ==
  \A t \in Threads :
    (Returned(t, "list") /\ th[t].ret.success /\ AfterCreateAlone(t)) =>
      LET created == registry[th[t].prev.id]
          found == th[t].ret.worktrees
      IN /\ \E i \in 1..Len(found) : found[i] = created
         /\ \A i \in EntriesFor(found, created) : found[i] = created

\* what merge was called for, as it was when merge was called
MergedWorkspace(t) == th[t].snap[1].registry[th[t].args.worktree_id]

\* C3: once the merge step of merge(p, id) has failed, the workspace
\* directory, its branch, git's record of the worktree and the registry entry
\* are as they were when merge was called
FailedMergeLeavesWorkspace ==
  \A t \in Threads :
    (th[t].op = "merge" /\ "merge_failed" \in Range(th[t].log)) =>
      LET before == th[t].snap[1]
          id == th[t].args.worktree_id
          w == MergedWorkspace(t)
      IN /\ id \in DOMAIN registry /\ registry[id] = w
         /\ registry = before.registry
         /\ Below(RealPath(w.path), dirs) = Below(RealPath(w.path), before.dirs)
         /\ (w.branch \in branches) = (w.branch \in before.branches)
         /\ {g \in gitWt : g.branch = w.branch} = {g \in before.gitWt : g.branch = w.branch}

\* a merge of a registered workspace whose directory exists failed in its
\* merge step and returned
MergeStepFailed ==
  \E t \in Threads :
    /\ Returned(t, "merge") /\ ~th[t].ret.success
    /\ "merge_failed" \in Range(th[t].log)
    /\ exists(MergedWorkspace(t).path, dirs)
    /\ MergedWorkspace(t).branch \in branches

\* the call of fetch_base_ref_with_fallback in t took the fallback path: the
\* first fetch failed with a missing-remote-ref error and the fallback differs
TookFallback(t) == th[t].loc.fallback # None

\* C4: on the fallback path the fallback is the next ref fetched; when that
\* fetch succeeds the fallback's full_ref is handed to the DB collaborator
\* exactly once in the call, and the fallback is what is returned
FallbackFetchedPersistedOnce ==
  \A t \in Threads :
    TookFallback(t) =>
      LET base_ref == th[t].loc.base_ref[1]
          fallback == th[t].loc.fallback[1]
          fetches == th[t].loc.fetches
          persisted == th[t].loc.persisted
      IN /\ fallback.full_ref # base_ref.full_ref
         /\ is_missing_remote_ref_error(th[t].loc.err)
         /\ fetches \in {<<base_ref.full_ref>>, <<base_ref.full_ref, fallback.full_ref>>}
         /\ (th[t].pc # "f_fetch2") => (fetches = <<base_ref.full_ref, fallback.full_ref>>)
         /\ persisted \in {<<>>, <<fallback.full_ref>>}
         /\ ("fetch_fallback_ok" \in Range(th[t].log) /\ th[t].pc # "f_persist") =>
              /\ persisted = <<fallback.full_ref>>
              /\ th[t].loc.fetched = Some(fallback)
              /\ (Returned(t, "fetchBaseRef") =>
                    th[t].ret.success /\ th[t].ret.base_ref = Some(fallback))
         /\ ("fetch_fallback_ok" \notin Range(th[t].log) \/ th[t].pc = "f_persist") =>
              persisted = <<>>

\* project_settings_fetch_base_ref returned the fallback after the configured
\* ref was missing on the remote, and the row now names the fallback
FallbackReturned ==
  \E t \in Threads :
    /\ Returned(t, "fetchBaseRef") /\ th[t].ret.success
    /\ TookFallback(t)
    /\ th[t].ret.base_ref = th[t].loc.fallback
    /\ dbRow.base_ref = Some(th[t].loc.fallback[1].full_ref)
    /\ th[t].snap[1].dbRow.base_ref # dbRow.base_ref

(***************************************************************************)
(* Properties of remove called twice                                       *)
(***************************************************************************)
\* t has the result of a remove that follows, with the same project and id,
\* a remove that found the id registered
SecondRemove(t) ==
  /\ Returned(t, "remove")
  /\ th[t].prev.op = "remove" /\ th[t].prev.found
  /\ th[t].prev.args.worktree_id = th[t].args.worktree_id
  /\ th[t].prev.args.project_path = th[t].args.project_path

SecondRemoveChangedNothing(t) ==
  /\ th[t].ret.success
  /\ dirs = th[t].snap[1].dirs
  /\ registry = th[t].snap[1].registry

\* C2 as claimed: remove(p, id) twice in a row for a registered id succeeds
\* both times, and the second call changes neither the directories nor the
\* registry
RemoveTwiceSucceedsTwice ==
  \A t \in Threads :
    SecondRemove(t) => th[t].prev.ok /\ SecondRemoveChangedNothing(t)

\* C2 amended: when the first remove succeeded and the second one is given
\* the workspace's path as its explicit path, the second succeeds too and
\* changes neither the directories nor the registry
RemoveAgainWithPathSucceeds ==
  \A t \in Threads :
    (/\ SecondRemove(t)
     /\ th[t].prev.ok
     /\ th[t].args.worktree_path = Some(th[t].prev.path))
      => SecondRemoveChangedNothing(t)

\* a second remove, given the explicit path, returned after the first one had
\* deleted the directory and the registry entry
RemovedTwiceWithPath ==
  \E t \in Threads :
    /\ SecondRemove(t)
    /\ th[t].prev.ok
    /\ th[t].args.worktree_path = Some(th[t].prev.path)
    /\ th[t].ret.success
    /\ th[t].args.worktree_id \notin DOMAIN registry
    /\ ~exists(th[t].prev.path, dirs)

(***************************************************************************)
(* Properties of concurrent commands                                       *)
(***************************************************************************)
\* the positions at which a command is inside an external process (git,
\* chmod): the step taken from there is the process having run
ExternalPcs ==
  {"c_resolve", "f_fetch1", "f_default", "f_fetch2", "c_add", "c_push",
   "l_git",
   "r_gitremove", "r_prune", "r_chmod", "r_branch", "r_prune2", "r_branch2", "r_pushdel",
   "m_default", "m_checkout", "m_merge",
   "b_add"}

\* C5: no command holds the registry mutex while it is inside an external
\* process, so a command stuck there blocks no other thread's lock()
MutexNotHeldAcrossProcess ==
  \A t \in Threads : th[t].pc \in ExternalPcs => lockHolder # t

\* one command is inside `git push` right after its insert while the other
\* holds the mutex for its own registry access
LockTakenBesideRunningProcess ==
  /\ th["t1"].pc = "c_push"
  /\ lockHolder = "t2"
  /\ th["t2"].pc = "l_scan"

\* C9: no two registry entries have the same path
RegistryPathsUnique ==
  \A k1 \in DOMAIN registry, k2 \in DOMAIN registry :
    k1 # k2 => registry[k1].path # registry[k2].path


(***************************************************************************)
(* resolve_project_base_ref applied on its own                             *)
(***************************************************************************)
UP == <<"u","p">>
REMOTES == <<"r","e","m","o","t","e","s">>
RELEASE == <<"r","e","l","e","a","s","e">>
A_B == <<"a","/","b">>

\* the remotes a project may have configured, by name
RemoteSets == { <<ORIGIN>>, <<ORIGIN, UP>>, <<ORIGIN, REMOTES>> }

\* branch names a base ref may carry
BaseBranches == { RELEASE, A_B, MAIN }

\* what the settings row may hold as base_ref
BaseRefs ==
  {r \o <<"/">> \o b : r \in {ORIGIN, UP, REMOTES}, b \in BaseBranches}
    \cup { REFS_REMOTES \o ORIGIN \o <<"/">> \o RELEASE, RELEASE, BLANK, ORIGIN \o <<"/">> }

\* the local branches the ref-existence check may find
HeadSets == { {}, {RELEASE}, {ORIGIN \o <<"/">> \o RELEASE, REMOTES \o <<"/">> \o MAIN} }

\* what `git remote show origin` may answer, also without a HEAD branch
ResolverShows ==
  RemoteShowAnswers \cup {Some(<< <<"*"," ","r","e","m","o","t","e"," ","o","r","i","g","i","n">>, <<" "," ","H","E","A","D"," ","b","r","a","n","c","h",":"," ">> >>)}

ResolverInputs ==
  {[fn |-> "resolve_project_base_ref",
    row |-> [git_remote |-> gr, git_branch |-> gb, base_ref |-> br],
    configured |-> cf,
    env |-> [remotes |-> rm, heads |-> hs, show |-> sh]] :
     gr \in {None, Some(UP), Some(BLANK)},
     gb \in {None, Some(<<"d","e","v">>), Some(<<"a"," ","b">>), Some(<<"a","\t","b">>)},
     br \in {None} \cup {Some(x) : x \in BaseRefs},
     cf \in RemoteSets,
     rm \in {"fails", "answers"},
     hs \in HeadSets,
     sh \in ResolverShows}

InitResolver ==
  /\ InitProgram
  /\ budget = 0
  /\ input \in {[i EXCEPT !.env.remotes = IF @ = "fails" THEN None ELSE Some(i.configured)] :
                  i \in ResolverInputs}
  /\ output = None

Resolve ==
  /\ input.fn = "resolve_project_base_ref"
  /\ output = None
  /\ output' = Some([info |-> resolve_project_base_ref(input.row, input.env),
                     ran |-> resolve_commands(input.row, input.env),
                     fetched |-> None])
  /\ UNCHANGED <<shared, template, pushOnCreate, budget, input, known, clock, ncalls, th>>

\* fetch_base_ref_with_fallback (lines 351-396) as a function of the answers
\* of the first fetch, of `git remote show origin` and of the second fetch
fetch_base_ref_with_fallback(base_ref, first, show, second) ==
  LET fallback == BaseRefInfo(ORIGIN, get_default_branch(show))
  IN IF first = None THEN [Ok EXCEPT !.base_ref = Some(base_ref)]
     ELSE IF ~is_missing_remote_ref_error(first[1]) THEN FailedToFetch(base_ref, first[1])
     ELSE IF fallback.full_ref = base_ref.full_ref THEN FailedToFetch(base_ref, first[1])
     ELSE IF second = None THEN [Ok EXCEPT !.base_ref = Some(fallback)]
     ELSE Err("Failed to fetch base branch. Tried",
              <<base_ref.full_ref, fallback.full_ref, second[1]>>)

\* the resolved ref is fetched, as worktree_create does next (lines 595-599)
FetchResolved ==
  /\ input.fn = "resolve_project_base_ref"
  /\ output # None /\ output[1].fetched = None
  /\ \E first \in FetchAnswers, show \in ResolverShows, second \in FetchAnswers :
       output' = Some([output[1] EXCEPT !.fetched =
                         Some(fetch_base_ref_with_fallback(output[1].info, first, show,
                                                           second))])
  /\ UNCHANGED <<shared, template, pushOnCreate, budget, input, known, clock, ncalls, th>>

SpecResolver == InitResolver /\ [][Resolve \/ FetchResolved]_vars

Resolved == output # None /\ input.fn = "resolve_project_base_ref"

\* base_ref is r/b for a configured remote r and a branch b
IsRemoteForm(r, b) ==
  /\ input.row.base_ref = Some(r \o <<"/">> \o b)
  /\ \E i \in 1..Len(input.configured) : input.configured[i] = r

ResolvesTo(r, b) ==
  /\ output[1].info = [remote |-> r, branch |-> b, full_ref |-> r \o <<"/">> \o b]
  /\ \A i \in 1..Len(output[1].ran) : output[1].ran[i] \notin {"rev-parse", "remote show"}

\* C12 as stated: a base_ref r/b whose r is a configured remote resolves to
\* {r, b, "r/b"} whatever git_remote and git_branch are, with no local
\* ref-existence check and no query of the remote's HEAD
RemoteFormResolvesToItself ==
  Resolved =>
    \A r \in {ORIGIN, UP, REMOTES}, b \in BaseBranches :
      IsRemoteForm(r, b) => ResolvesTo(r, b)

\* C12, amended: the same for a base_ref that does not begin with
\* "remotes/" or "refs/remotes/", the prefixes resolve strips before splitting
RemoteFormWithoutPrefixResolvesToItself ==
  Resolved =>
    \A r \in {ORIGIN, UP, REMOTES}, b \in BaseBranches :
      (/\ IsRemoteForm(r, b)
       /\ ~StartsWith(r \o <<"/">> \o b, REMOTES_SLASH)
       /\ ~StartsWith(r \o <<"/">> \o b, REFS_REMOTES))
        => ResolvesTo(r, b)

\* "origin/release" was resolved with remotes {origin}, while the row named
\* another remote and branch and a local branch origin/release existed
OriginReleaseResolved ==
  /\ Resolved
  /\ input.row.base_ref = Some(ORIGIN \o <<"/">> \o RELEASE)
  /\ input.configured = <<ORIGIN>>
  /\ input.row.git_remote = Some(UP)
  /\ input.row.git_branch # None
  /\ ORIGIN \o <<"/">> \o RELEASE \in input.env.heads
  /\ output[1].info.full_ref = ORIGIN \o <<"/">> \o RELEASE

(***************************************************************************)
(* Properties of a worktree_create that fails                              *)
(***************************************************************************)
LastTag(t) == th[t].log[Len(th[t].log)]

\* t has the failure of a worktree_create that got as far as the project row
FailedAfterValidation(t) ==
  /\ Returned(t, "create") /\ ~th[t].ret.success
  /\ LastTag(t) \in {"db_row_failed", "fetch_failed", "fallback_same",
                     "fetch_fallback_failed", "worktree_add"}

\* the error each failing step hands back
ErrorOfStep(t) ==
  CASE LastTag(t) = "db_row_failed" -> {"db"}
    [] LastTag(t) \in {"fetch_failed", "fallback_same"} -> {"Failed to fetch"}
    [] LastTag(t) = "fetch_fallback_failed" -> {"Failed to fetch base branch. Tried"}
    [] LastTag(t) = "worktree_add" -> {"Command failed"}
    [] OTHER -> {}

\* C13: when create fails at the project row, at the fetch of the base ref or
\* at worktree add, it returns that step's error, the target directory does
\* not exist, there is no branch that was not there before, and the registry
\* is as it was
FailedCreateLeavesNothing ==
  \A t \in Threads :
    FailedAfterValidation(t) =>
      /\ th[t].ret.error.kind \in ErrorOfStep(t)
      /\ ~exists(th[t].loc.worktree_path, dirs)
      /\ branches = th[t].snap[1].branches
      /\ registry = th[t].snap[1].registry

\* worktree add failed for a create that had fetched its base ref and made
\* the worktrees directory
CreateFailedAtAdd ==
  \E t \in Threads :
    /\ FailedAfterValidation(t)
    /\ LastTag(t) = "worktree_add"
    /\ th[t].loc.fetched # None
    /\ exists(parent(th[t].loc.worktree_path), dirs)

\* create was called with a required argument that is empty once trimmed
BlankCreate(t) ==
  /\ th[t].op = "create"
  /\ \/ Trim(th[t].args.project_path) = <<>>
     \/ Trim(th[t].args.task_name) = <<>>
     \/ Trim(th[t].args.project_id) = <<>>

\* C14: a create with an empty projectPath, taskName or projectId returns an
\* error having run no external command, with the filesystem, the repository
\* and the registry as they were
BlankCreateDoesNothing ==
  \A t \in Threads :
    BlankCreate(t) =>
      /\ th[t].pc \in {"c_begin", "ret"}
      /\ Snapshot = th[t].snap[1]
      /\ th[t].pc = "ret" =>
            /\ ~th[t].ret.success
            /\ th[t].ret.error.kind = "Missing required parameters"
            /\ th[t].log = <<"invalid">>

\* a create with a blank task name and the other arguments in order returned
BlankTaskNameRejected ==
  \E t \in Threads :
    /\ Returned(t, "create") /\ BlankCreate(t)
    /\ Trim(th[t].args.project_path) # <<>>
    /\ Trim(th[t].args.project_id) # <<>>
    /\ ~th[t].ret.success

\* the target path of t's create was a directory when create was called
TargetExisted(t) ==
  /\ th[t].op = "create"
  /\ th[t].loc.worktree_path # <<>>
  /\ exists(th[t].loc.worktree_path, th[t].snap[1].dirs)

\* C15: when <projectPath>/../worktrees/<slug>-<timestamp> already exists,
\* create fails with the path-conflict error before it reads the project row,
\* fetches or runs worktree add, and the directory and the registry stay as
\* they were
ExistingTargetIsConflict ==
  \A t \in Threads :
    TargetExisted(t) =>
      /\ th[t].pc = "ret" /\ ~th[t].ret.success
      /\ th[t].ret.error = [kind |-> "Worktree directory already exists",
                            parts |-> <<th[t].loc.worktree_path>>]
      /\ th[t].log = <<"conflict">>
      /\ Snapshot = th[t].snap[1]
      /\ exists(th[t].loc.worktree_path, dirs)

\* a create was refused because its target is the directory of a workspace
\* the registry holds
CreateRefusedForRegisteredPath ==
  \E t \in Threads :
    /\ TargetExisted(t) /\ Returned(t, "create")
    /\ \E id \in DOMAIN registry : registry[id].path = th[t].loc.worktree_path

(***************************************************************************)
(* Properties of worktree_merge                                            *)
(***************************************************************************)
\* merge was called with a project path, for an id the registry did not hold
UntrackedMerge(t) ==
  /\ th[t].op = "merge"
  /\ Trim(th[t].args.project_path) # <<>>
  /\ th[t].args.worktree_id \notin DOMAIN th[t].snap[1].registry

\* C16: merge for an id without a registry entry fails with "Worktree not
\* found" and runs neither checkout nor merge nor any step of the removal,
\* also when the workspace of that id is on disk
UntrackedMergeNotFound ==
  \A t \in Threads :
    UntrackedMerge(t) =>
      /\ th[t].pc \in {"m_begin", "m_lock", "m_read", "ret"}
      /\ Snapshot = th[t].snap[1]
      /\ th[t].pc = "ret" =>
            /\ ~th[t].ret.success
            /\ th[t].ret.error.kind = "Worktree not found"
            /\ th[t].log = <<"valid", "lock", "read">>

\* merge did not find an id whose workspace directory exists and is one of
\* git's worktrees
MergeOfUntrackedWorkspaceOnDisk ==
  \E t \in Threads :
    /\ UntrackedMerge(t) /\ Returned(t, "merge")
    /\ \E w \in known :
         /\ w.id = th[t].args.worktree_id
         /\ exists(w.path, dirs)
         /\ \E g \in gitWt : g.path = RealPath(w.path)

\* C17: when the checkout of the default branch succeeded and the merge step
\* then failed, the branch checked out in the project directory is the one
\* that was checked out when merge was called
FailedMergeKeepsCheckedOutBranch ==
  \A t \in Threads :
    (/\ Returned(t, "merge") /\ ~th[t].ret.success
     /\ "checkout" \in Range(th[t].log)
     /\ "merge_failed" \in Range(th[t].log))
      => head = th[t].snap[1].head

(***************************************************************************)
(* Properties of worktree_remove                                           *)
(***************************************************************************)
\* t's remove is past its directory-removal step and the directory is absent
DirectoryGone(t) ==
  /\ th[t].op = "remove"
  /\ \E i \in 1..Len(th[t].log) : th[t].log[i] \in {"absent", "remove_dir_all"}
  /\ th[t].pc \notin {"r_chmod", "r_rmdir2"}
  /\ ~exists(th[t].loc.path_to_remove, dirs)

\* C18: once the workspace directory is absent after the directory-removal
\* step, no failure of the branch deletion, of the prune retry or of the
\* remote branch deletion makes remove fail: it goes on to return success,
\* and the registry then has no entry for the id
RemoveSucceedsOnceDirectoryGone ==
  \A t \in Threads :
    DirectoryGone(t) =>
      /\ th[t].pc \in {"r_branch", "r_prune2", "r_branch2", "r_pushdel", "r_unreg",
                        "r_unreg2", "ret"}
      /\ th[t].pc = "ret" =>
            /\ th[t].ret.success
            /\ th[t].args.worktree_id \notin DOMAIN registry

\* a remove of a registered workspace returned success although the branch
\* could not be deleted, neither at first nor after the prune retry
RemovedButBranchKept ==
  \E t \in Threads :
    /\ DirectoryGone(t) /\ Returned(t, "remove")
    /\ th[t].loc.existing # None
    /\ Cardinality({i \in 1..Len(th[t].log) : th[t].log[i] = "branch_delete"}) = 2
    /\ th[t].loc.branch_to_delete[1] \in branches

(***************************************************************************)
(* CommandRunner: run_command and format_output_error (lines 109-155)      *)
(***************************************************************************)
COMMAND_FAILED == <<"C","o","m","m","a","n","d"," ","f","a","i","l","e","d">>

\* a format_output_error that prefers stdout to stderr
format_output_stdout_first(out) ==
  LET stderr == Trim(out.stderr)
      stdout == Trim(out.stdout)
  IN IF stdout # <<>> THEN stdout
     ELSE IF stderr # <<>> THEN stderr
     ELSE COMMAND_FAILED

format_output_error(out) ==
  LET stderr == Trim(out.stderr)
      stdout == Trim(out.stdout)
  IN IF stderr # <<>> THEN stderr
     ELSE IF stdout # <<>> THEN stdout
     ELSE COMMAND_FAILED

\* run_command: launched is None when the program could not be started (the
\* io error's text otherwise absent), else the Output of the finished process
run_command(launched) ==
  IF launched = None THEN [ok |-> FALSE, value |-> <<"N","o"," ","s","u","c","h"," ","f","i","l","e"," ","o","r"," ","d","i","r","e","c","t","o","r","y">>]
  ELSE IF launched[1].status = 0 THEN [ok |-> TRUE, value |-> launched[1].stdout]
  ELSE [ok |-> FALSE, value |-> format_output_error(launched[1])]

\* what a process may have written
Streams ==
  { <<>>, <<" ">>, <<"\n">>, <<"e">>, <<" ","e","r","r"," ","x","\n">>, <<"\t","o","u","t">> }

RunnerInputs ==
  {[fn |-> "run_command", launched |-> l] :
     l \in {None} \cup {Some([status |-> st, stdout |-> so, stderr |-> se]) :
                          st \in {0, 1, 128}, so \in Streams, se \in Streams}}

InitRunner ==
  /\ InitProgram
  /\ budget = 0
  /\ input \in RunnerInputs
  /\ output = None

RunCommand ==
  /\ input.fn = "run_command"
  /\ output = None
  /\ output' = Some(run_command(input.launched))
  /\ UNCHANGED <<shared, template, pushOnCreate, budget, input, known, clock, ncalls, th>>

SpecRunner == InitRunner /\ [][RunCommand]_vars

\* the command was run, and the process was started and finished
Exited == output # None /\ input.fn = "run_command" /\ input.launched # None

HasText(s) == \E k \in 1..Len(s) : ~IsWhitespace(s[k])

\* m is s without its leading and trailing whitespace
IsTrimOf(m, s) ==
  /\ m # <<>>
  /\ ~IsWhitespace(m[1]) /\ ~IsWhitespace(m[Len(m)])
  /\ \E i \in 1..Len(s) :
       /\ i + Len(m) - 1 <= Len(s)
       /\ SubSeq(s, i, i + Len(m) - 1) = m
       /\ \A k \in 1..Len(s) : (k < i \/ k > i + Len(m) - 1) => IsWhitespace(s[k])

\* C19: a non-zero exit is an error whose message is the trimmed stderr when
\* that is not empty, else the trimmed stdout when that is not empty, else
\* "Command failed"; a zero exit is never an error
NonZeroExitIsErrorWithOutput ==
  Exited =>
    LET out == input.launched[1]
        res == output[1]
    IN /\ out.status = 0 => res.ok
       /\ out.status # 0 =>
            /\ ~res.ok
            /\ HasText(out.stderr) => IsTrimOf(res.value, out.stderr)
            /\ (~HasText(out.stderr) /\ HasText(out.stdout)) =>
                  IsTrimOf(res.value, out.stdout)
            /\ (~HasText(out.stderr) /\ ~HasText(out.stdout)) =>
                  res.value = COMMAND_FAILED

\* a command that failed with text on both streams was reported with its
\* stderr, trimmed
FailedWithBothStreams ==
  /\ Exited
  /\ input.launched[1].status = 1
  /\ input.launched[1].stderr = <<" ","e","r","r"," ","x","\n">>
  /\ input.launched[1].stdout = <<"\t","o","u","t">>
  /\ output[1] = [ok |-> FALSE, value |-> <<"e","r","r"," ","x">>]

\* C20: whenever merge returns success the removal it delegates to has
\* completed: the workspace directory does not exist and the registry has no
\* entry for the id
MergeSuccessMeansRemoved ==
  \A t \in Threads :
    (Returned(t, "merge") /\ th[t].ret.success) =>
      /\ ~exists(MergedWorkspace(t).path, dirs)
      /\ th[t].args.worktree_id \notin DOMAIN registry

(***************************************************************************)
(* The listing loop applied to one linked worktree (lines 480-541)         *)
(***************************************************************************)
TASK_TEMPLATE == <<"t","a","s","k","/","{","s","l","u","g","}">>
SLUG_TEMPLATE == <<"{","s","l","u","g","}">>
ListTemplates == {DEFAULT_TEMPLATE, TASK_TEMPLATE, SLUG_TEMPLATE}

LINKED_PATH == <<"/","w","/","x">>

ListedBranches ==
  { <<"a","g","e","n","t">>, <<"a","g","e","n","t","/","x">>, <<"a","g","e","n","t","-","x">>, <<"a","g","e","n","t",".","x">>, <<"a","g","e","n","t","_","x">>, <<"a","g","e","n","t","x">>,
    <<"p","r">>, <<"p","r","/","5">>, <<"p","r","o","d">>, <<"o","r","c","h","/","a">>, <<"o","r","c","h","i","d">>, <<"m","a","i","n">>, <<"x","/","a","g","e","n","t","/","y">>,
    <<"t","a","s","k">>, <<"t","a","s","k","/","a">>, <<"t","a","s","k","s">>, <<"f","i","x","-","b","u","g">>, <<"a">>, <<>> }

ListingInputs ==
  {[fn |-> "list", branch |-> b, template |-> tp, tracked |-> tr] :
     b \in ListedBranches, tp \in ListTemplates, tr \in BOOLEAN}

\* the Registry of the listing: empty, or holding the linked worktree's record
TrackedOf(in) ==
  IF in.tracked
    THEN [k \in {BOGUS_ID} |->
            WorktreeInfo(BOGUS_ID, file_name(LINKED_PATH), in.branch, LINKED_PATH, PROJ, 0)]
    ELSE EmptyMap

InitListing ==
  /\ InitProgram
  /\ budget = 0
  /\ input \in ListingInputs
  /\ output = None

\* lines 478-541 on the output of a project with one linked worktree
ListLinked ==
  /\ input.fn = "list"
  /\ output = None
  /\ output' = Some(ScanLines(<<ListLine(REPO, MAIN), ListLine(LINKED_PATH, input.branch)>>,
                              TrackedOf(input), managed_prefixes(input.template),
                              REPO, dirs, clock, None))
  /\ UNCHANGED <<shared, template, pushOnCreate, budget, input, known, clock, ncalls, th>>

SpecListing == InitListing /\ [][ListLinked]_vars

Listed == output # None /\ input.fn = "list"

\* the linked worktree is among the returned entries
LinkedReturned == \E i \in 1..Len(output[1]) : output[1][i].path = LINKED_PATH

\* the managed prefixes as the claim gives them
ClaimedPrefixes(tmpl) ==
  {<<"a","g","e","n","t">>, <<"p","r">>, <<"o","r","c","h">>} \cup
    (IF extract_template_prefix(tmpl) = <<>> THEN {} ELSE {extract_template_prefix(tmpl)})

\* the branch equals a managed prefix, or starts with one immediately followed
\* by '/', '-', '.' or '_'
PrefixedBranch(branch, tmpl) ==
  \E pf \in ClaimedPrefixes(tmpl) :
    \/ branch = pf
    \/ \E sep \in {"/", "-", ".", "_"} : StartsWith(branch, pf \o <<sep>>)

\* C21: list returns an entry that is not in the Registry if and only if its
\* branch equals a managed prefix or starts with a managed prefix immediately
\* followed by '/', '-', '.' or '_'; every other unregistered entry is omitted
UnregisteredListedIffPrefixed ==
  (Listed /\ ~input.tracked) =>
    (LinkedReturned <=> PrefixedBranch(input.branch, input.template))

(***************************************************************************)
(* Workspaces are created and listed under each setting of the branch      *)
(* template and of pushOnCreate (lines 455-471), across restarts            *)
(***************************************************************************)
MaxSettingsCalls == 2

InitSettings ==
  /\ InitShared
  /\ dbRow = [git_remote |-> None, git_branch |-> None, base_ref |-> Some(ORIGIN_REL)]
  /\ template \in ListTemplates
  /\ pushOnCreate \in BOOLEAN
  /\ budget = MaxSettingsCalls
  /\ input = None
  /\ output = None

NextSettings ==
  \/ CreateCallFor("t1", {REPO}, {FIX}, {PROJ}) \/ CreateStep("t1") \/ FetchStep("t1")
  \/ ListCallFor("t1", {REPO}) \/ ListStep("t1")
  \/ Deliver("t1") \/ Restart

SpecSettings == InitSettings /\ [][NextSettings]_vars

\* list has returned its entries, called when the Registry was empty after a
\* restart
ListedAfterRestart(t) ==
  /\ th[t].pc = "ret" /\ th[t].op = "list" /\ th[t].ret.success
  /\ th[t].prev.op = "restart"
  /\ th[t].snap[1].registry = EmptyMap

\* the workspaces create returned that git still has, with their directory
CreatedOnDisk ==
  {k \in known : \E w \in gitWt :
     w.branch = k.branch /\ w.path = RealPath(k.path) /\ exists(w.path, dirs)}

\* C22: for any branch template, a workspace created by create is still
\* returned by list after the Registry has been reset by a restart, as long
\* as the template is unchanged and the workspace still exists on disk
CreatedStillListedAfterRestart ==
  \A t \in Threads :
    ListedAfterRestart(t) =>
      \A k \in CreatedOnDisk :
        \E i \in 1..Len(th[t].ret.worktrees) : th[t].ret.worktrees[i].branch = k.branch

\* the entries of a list result that stand for a workspace create returned
SynthesizedFor(t, k) ==
  {i \in 1..Len(th[t].ret.worktrees) : th[t].ret.worktrees[i].path = RealPath(k.path)}

\* C23: the record list synthesizes for a workspace after the Registry has
\* been reset carries the id that create returned for it, and status "active"
SynthesizedCarriesCreatedId ==
  \A t \in Threads :
    ListedAfterRestart(t) =>
      \A k \in known : \A i \in SynthesizedFor(t, k) :
        /\ th[t].ret.worktrees[i].id = k.id
        /\ th[t].ret.worktrees[i].status = "active"

\* a created workspace was listed from an empty Registry
CreatedWorkspaceSynthesized ==
  \E t \in Threads :
    /\ ListedAfterRestart(t)
    /\ \E k \in known : SynthesizedFor(t, k) # {}

(***************************************************************************)
(* Workspaces are created, listed and looked up, across restarts           *)
(***************************************************************************)
MaxRehydrateCalls == 3

InitRehydrate == Init /\ budget = MaxRehydrateCalls

NextRehydrate ==
  \/ CreateCallFor("t1", {REPO}, {FIX}, {PROJ}) \/ CreateStep("t1") \/ FetchStep("t1")
  \/ ListCallFor("t1", {REPO}) \/ ListStep("t1")
  \/ GetCall("t1") \/ GetLock("t1") \/ GetRead("t1")
  \/ Deliver("t1") \/ Restart

SpecRehydrate == InitRehydrate /\ [][NextRehydrate]_vars

\* get has returned for an id that the preceding list synthesized a record for
GotSynthesized(t) ==
  /\ th[t].pc = "ret" /\ th[t].op = "get"
  /\ th[t].args.worktree_id \in th[t].prev.synth

\* C24: list never mutates the Registry: the records it synthesizes are
\* returned but not stored, so the Registry is the same before and after
\* every list call, and get(id) for a synthesized id still reports not found
ListLeavesRegistryAlone ==
  \A t \in Threads :
    /\ (th[t].op = "list" /\ th[t].pc = "ret") => registry = th[t].snap[1].registry
    /\ GotSynthesized(t) =>
         ~th[t].ret.success /\ th[t].ret.error.kind = "Worktree not found"

\* get was called with the id of a record list had synthesized
GetOfSynthesizedId == \E t \in Threads : GotSynthesized(t)

(***************************************************************************)
(* Pull-request workspaces are created and removed, the removal called     *)
(* with arguments that agree or disagree with the Registry (lines 676-762) *)
(***************************************************************************)
MaxRemovalCalls == 2

ORIGIN_PR == ORIGIN \o <<"/">> \o PR_BRANCH

\* what worktree_remove may be called with: RemoveArgs, a blank path, a
\* branch given in its remote form, and a registered id together with the
\* path and branch of something else
RemoveRequests ==
  RemoveArgs
  \cup {[worktree_id |-> BOGUS_ID, worktree_path |-> Some(BLANK), branch |-> Some(MAIN)],
        [worktree_id |-> BOGUS_ID, worktree_path |-> Some(PR_PATH), branch |-> Some(ORIGIN_PR)]}
  \cup {[worktree_id |-> w.id, worktree_path |-> Some(REPO), branch |-> Some(MAIN)] :
          w \in known}

RemoveRequest(t) ==
  /\ \E a \in RemoveRequests :
       Begin(t, "remove",
             [NoArgs EXCEPT !.project_path = REPO, !.worktree_id = a.worktree_id,
                            !.worktree_path = a.worktree_path, !.branch = a.branch],
             "r_begin")
  /\ UNCHANGED <<shared, outside, clock>>

InitRemoval == Init /\ budget = MaxRemovalCalls

NextRemoval ==
  \/ PullRequestCall("t1") \/ FromBranchStep("t1")
  \/ RemoveRequest("t1") \/ RemoveStep("t1")
  \/ Deliver("t1") \/ Restart

SpecRemoval == InitRemoval /\ [][NextRemoval]_vars

\* remove has read the Registry (line 685) and decided what to remove
RemoveDecided(t) ==
  /\ th[t].op = "remove"
  /\ \E i \in 1..Len(th[t].log) : th[t].log[i] = "read"

\* the Registry entry for the id remove was called with, as of the call
EntryAtCall(t) ==
  IF th[t].args.worktree_id \in DOMAIN th[t].snap[1].registry
    THEN Some(th[t].snap[1].registry[th[t].args.worktree_id]) ELSE None

\* the path the claim has remove use
ClaimedPath(t) ==
  IF EntryAtCall(t) # None THEN EntryAtCall(t)[1].path
  ELSE IF th[t].args.worktree_path # None THEN th[t].args.worktree_path[1]
  ELSE <<>>

ClaimedBranch(t) ==
  IF EntryAtCall(t) # None THEN Some(EntryAtCall(t)[1].branch) ELSE th[t].args.branch

\* C25: remove takes the path and the branch from the Registry entry for the
\* id when there is one, whatever the explicit arguments, and from the
\* explicit arguments only when there is none; when that gives no non-blank
\* path it fails without running a command and without changing the
\* filesystem or the Registry
RemoveTargetFromRegistryFirst ==
  \A t \in Threads :
    RemoveDecided(t) =>
      IF Trim(ClaimedPath(t)) = <<>>
        THEN /\ th[t].pc = "ret" /\ ~th[t].ret.success
             /\ th[t].ret.error.kind = "Worktree path not provided"
             /\ th[t].log = <<"valid", "lock", "read">>
             /\ Snapshot = th[t].snap[1]
        ELSE /\ th[t].loc.path_to_remove = ClaimedPath(t)
             /\ th[t].loc.branch_to_delete = ClaimedBranch(t)

\* remove was called for a registered id with the path and the branch of
\* something else, and has decided what to remove
RemoveWithConflictingArguments ==
  \E t \in Threads :
    /\ RemoveDecided(t)
    /\ EntryAtCall(t) # None
    /\ th[t].args.worktree_path = Some(REPO)
    /\ th[t].args.branch = Some(MAIN)

\* remove was called with a blank path for an id that has no entry
RemoveWithNoPath ==
  \E t \in Threads :
    /\ RemoveDecided(t) /\ EntryAtCall(t) = None
    /\ th[t].args.worktree_path # None /\ Trim(ClaimedPath(t)) = <<>>

\* the positions of a step in the log of a thread
StepsOf(t, tag) == {i \in 1..Len(th[t].log) : th[t].log[i] = tag}

\* remove has escalated the permissions of the directory
Escalated(t) == th[t].op = "remove" /\ StepsOf(t, "chmod") # {}

TargetExists(t) == exists(th[t].loc.path_to_remove, dirs)

\* C26: in remove the permissions are escalated only after a first deletion
\* of the directory has failed, and the deletion is then retried exactly
\* once; if the retry succeeds remove goes on and returns success, if it
\* fails remove returns an error with the Registry entry still present and
\* without attempting a local or remote branch deletion
EscalationOnlyAfterFailedDeletion ==
  \A t \in Threads :
    Escalated(t) =>
      /\ \A i \in StepsOf(t, "chmod") :
           /\ i > 1 /\ th[t].log[i - 1] = "remove_dir_all"
           /\ StepsOf(t, "remove_dir_all") \cap 1..(i - 1) = {i - 1}
      /\ Cardinality(StepsOf(t, "chmod")) = 1
      /\ th[t].pc = "r_rmdir2" => TargetExists(t)
      /\ th[t].pc # "r_rmdir2" =>
           /\ Cardinality(StepsOf(t, "remove_dir_all")) = 2
           /\ \A i \in StepsOf(t, "chmod") : th[t].log[i + 1] = "remove_dir_all"
      /\ (th[t].pc = "ret" /\ ~TargetExists(t)) => th[t].ret.success
      /\ (th[t].pc # "r_rmdir2" /\ TargetExists(t)) =>
           /\ th[t].pc = "ret" /\ ~th[t].ret.success
           /\ registry = th[t].snap[1].registry
           /\ StepsOf(t, "branch_delete") = {} /\ StepsOf(t, "push_delete") = {}

\* the retried deletion failed for a registered workspace
RetryFailedForRegistered ==
  \E t \in Threads :
    /\ Escalated(t) /\ th[t].pc = "ret" /\ TargetExists(t)
    /\ th[t].args.worktree_id \in DOMAIN registry

\* the retried deletion succeeded and remove returned
RetrySucceeded ==
  \E t \in Threads : Escalated(t) /\ th[t].pc = "ret" /\ ~TargetExists(t)

\* remove is past the deletion of the directory (line 734)
PastDirectory(t) ==
  \/ th[t].pc \in {"r_unreg", "r_unreg2"}
  \/ th[t].pc = "ret" /\ th[t].ret.success

\* the branch name as pushed for deletion: without a leading "origin/"
WithoutOrigin(b) ==
  IF Len(b) >= 7 /\ SubSeq(b, 1, 7) = <<"o","r","i","g","i","n","/">>
    THEN SubSeq(b, 8, Len(b)) ELSE b

\* C27: when a branch name is known remove attempts the local deletion,
\* retries it at most once, only after a prune and only when the first
\* attempt found the branch checked out elsewhere, and then attempts the
\* remote deletion exactly once, with a leading "origin/" stripped, whatever
\* the local deletion gave; when no branch name is known no branch deletion
\* is attempted
BranchDeletionSequence ==
  \A t \in Threads :
    th[t].op = "remove" =>
      LET bd == StepsOf(t, "branch_delete")
          pd == StepsOf(t, "push_delete")
          known_branch == th[t].loc.branch_to_delete
      IN /\ known_branch = None => bd = {} /\ pd = {}
         /\ Cardinality(bd) <= 2 /\ Cardinality(pd) <= 1
         /\ \A i \in bd :
              (\E j \in bd : j < i) =>
                 th[t].log[i - 1] = "prune" /\ th[t].log[i - 2] = "branch_delete"
         /\ th[t].pc = "r_prune2" => CheckedOut(known_branch[1])
         /\ \A i \in pd :
              /\ th[t].log[i - 1] = "branch_delete"
              /\ th[t].loc.push_deleted = <<WithoutOrigin(known_branch[1])>>
         /\ pd = {} => th[t].loc.push_deleted = <<>>
         /\ (PastDirectory(t) /\ known_branch # None) =>
              Cardinality(bd) >= 1 /\ Cardinality(pd) = 1

\* a removal of a branch named in its remote form has pushed the deletion
RemoteFormBranchDeleted ==
  \E t \in Threads :
    /\ th[t].op = "remove" /\ PastDirectory(t)
    /\ th[t].loc.branch_to_delete = Some(ORIGIN_PR)
    /\ th[t].loc.push_deleted = <<PR_BRANCH>>

\* a removal has retried the local deletion and gone on to the remote one
LocalDeletionRetried ==
  \E t \in Threads :
    /\ th[t].op = "remove" /\ PastDirectory(t)
    /\ Cardinality(StepsOf(t, "branch_delete")) = 2

\* worktree add has succeeded for a create, and the directory is there
AddedWithDirectory(t) ==
  /\ th[t].op = "create"
  /\ StepsOf(t, "verify") # {}
  /\ exists(th[t].loc.worktree_path, dirs)

PushSteps(t) == StepsOf(t, "push") \cup StepsOf(t, "push_failed")

\* C28: once worktree add has succeeded and the directory exists, create
\* registers the workspace and returns success whether the upstream push
\* succeeds or fails; the push is attempted only when pushOnCreate is true
\* and only after the Registry insert
CreateSucceedsWhateverThePush ==
  \A t \in Threads :
    th[t].op = "create" =>
      /\ (AddedWithDirectory(t) /\ th[t].pc = "ret") =>
           /\ th[t].ret.success
           /\ th[t].ret.worktree # None
           /\ th[t].ret.worktree[1].id \in DOMAIN registry
           /\ registry[th[t].ret.worktree[1].id] = th[t].ret.worktree[1]
      /\ PushSteps(t) # {} =>
           /\ pushOnCreate
           /\ \A i \in PushSteps(t) : i > 1 /\ th[t].log[i - 1] = "insert"
      /\ Cardinality(PushSteps(t)) <= 1

\* a create has returned after a push that failed
CreatedThoughPushFailed ==
  \E t \in Threads :
    AddedWithDirectory(t) /\ th[t].pc = "ret" /\ StepsOf(t, "push_failed") # {}

\* a create has returned without a push, pushOnCreate being off
CreatedWithoutPush ==
  \E t \in Threads :
    AddedWithDirectory(t) /\ th[t].pc = "ret" /\ StepsOf(t, "no_push") # {}

\* fetch_base_ref_with_fallback has run its first fetch in t
FetchStarted(t) == th[t].op \in {"create", "fetchBaseRef"} /\ th[t].loc.fetches # <<>>

\* it has asked for the default branch (line 371)
QueriedDefault(t) == StepsOf(t, "fallback_same") \cup StepsOf(t, "fallback_differs") # {}

\* the first fetch failed with a missing-remote-ref error
FirstFetchMissingRef(t) == th[t].loc.err = ERR_NO_REF

FallbackDiffers(t) ==
  /\ th[t].loc.fallback # None
  /\ th[t].loc.fallback[1].full_ref # th[t].loc.base_ref[1].full_ref

\* a successful first fetch returns the base ref unchanged; any other error of
\* the first fetch, or an identical fallback, fails after exactly one fetch
\* with nothing persisted
FirstFetchOutcomes(t) ==
  LET base_ref == th[t].loc.base_ref[1]
      only_one == /\ th[t].loc.fetches = <<base_ref.full_ref>>
                  /\ th[t].loc.persisted = <<>>
                  /\ dbRow = th[t].snap[1].dbRow
      failed_with(err) ==
        /\ th[t].pc = "ret" /\ ~th[t].ret.success
        /\ th[t].ret.error = [kind |-> "Failed to fetch",
                              parts |-> <<base_ref.full_ref, err>>]
  IN /\ StepsOf(t, "fetch_ok") # {} =>
          /\ th[t].loc.fetched = Some(base_ref)
          /\ only_one
          /\ Returned(t, "fetchBaseRef") =>
               th[t].ret.success /\ th[t].ret.base_ref = Some(base_ref)
     /\ StepsOf(t, "fetch_failed") # {} => failed_with(ERR_NET) /\ only_one
     /\ StepsOf(t, "fallback_same") # {} => failed_with(ERR_NO_REF) /\ only_one

\* C29 as stated: the default branch is queried, a second fetch issued or the
\* DB collaborator written only when the first fetch failed with a
\* missing-remote-ref signature and the fallback differs from the original;
\* a successful first fetch returns baseRef unchanged, any other first-fetch
\* error or an identical fallback fails after one fetch, nothing persisted
FallbackStepsOnlyWhenMissingAndDifferent ==
  \A t \in Threads :
    FetchStarted(t) =>
      /\ (\/ QueriedDefault(t)
          \/ Len(th[t].loc.fetches) >= 2
          \/ th[t].loc.persisted # <<>>) =>
           FirstFetchMissingRef(t) /\ FallbackDiffers(t)
      /\ FirstFetchOutcomes(t)

\* C29 amended: the default branch is queried only when the first fetch
\* failed with a missing-remote-ref signature, and a second fetch is issued
\* or the DB collaborator written only when in addition the fallback differs
\* from the original; the outcomes are as stated
SecondFetchOnlyWhenMissingAndDifferent ==
  \A t \in Threads :
    FetchStarted(t) =>
      /\ QueriedDefault(t) => FirstFetchMissingRef(t)
      /\ (Len(th[t].loc.fetches) >= 2 \/ th[t].loc.persisted # <<>>) =>
           FirstFetchMissingRef(t) /\ FallbackDiffers(t)
      /\ FirstFetchOutcomes(t)

\* the default branch was queried and gave the ref that had just failed
FallbackIdentical ==
  \E t \in Threads :
    FetchStarted(t) /\ th[t].pc = "ret" /\ StepsOf(t, "fallback_same") # {}

\* lines 386-390: the text of the error a failed fallback fetch is returned with
format_fallback_error(e) ==
  <<"F","a","i","l","e","d"," ","t","o"," ","f","e","t","c","h"," ","b","a","s","e"," ","b","r","a","n","c","h","."," ","T","r","i","e","d"," ">> \o e.parts[1] \o <<" ","a","n","d"," ">> \o e.parts[2]
    \o <<"."," ">> \o e.parts[3] \o <<" ","P","l","e","a","s","e"," ","v","e","r","i","f","y"," ","t","h","e"," ","b","r","a","n","c","h"," ","e","x","i","s","t","s"," ","o","n"," ","t","h","e"," ","r","e","m","o","t","e",".">>

\* the fetch of the fallback failed too
FallbackFetchFailed(t) == FetchStarted(t) /\ StepsOf(t, "fetch_fallback_failed") # {}

\* C30: if the fallback fetch also fails, fetchWithFallback fails with a
\* message naming the original full_ref, the fallback full_ref and the
\* underlying error, and nothing is persisted to the DB collaborator
FailedFallbackNamesBothRefs ==
  \A t \in Threads :
    FallbackFetchFailed(t) =>
      LET base_ref == th[t].loc.base_ref[1]
          fallback == th[t].loc.fallback[1]
          e == th[t].ret.error
      IN /\ th[t].pc = "ret" /\ ~th[t].ret.success
         /\ e.kind = "Failed to fetch base branch. Tried" /\ Len(e.parts) = 3
         /\ e.parts[3] \in {ERR_NO_REF, ERR_NET}
         /\ Contains(format_fallback_error(e), <<"T","r","i","e","d"," ">> \o base_ref.full_ref \o <<" ","a","n","d"," ">>)
         /\ Contains(format_fallback_error(e), <<" ","a","n","d"," ">> \o fallback.full_ref \o <<"."," ">>)
         /\ Contains(format_fallback_error(e), <<"."," ">> \o e.parts[3] \o <<" ","P","l","e","a","s","e">>)
         /\ base_ref.full_ref # fallback.full_ref
         /\ th[t].loc.fetches = <<base_ref.full_ref, fallback.full_ref>>
         /\ th[t].loc.persisted = <<>>
         /\ dbRow = th[t].snap[1].dbRow

\* both fetches failed and the command returned
BothFetchesFailed == \E t \in Threads : FallbackFetchFailed(t) /\ th[t].pc = "ret"

\* the previous command of t got a fallback ref from
\* fetch_base_ref_with_fallback, and the current one has resolved its base ref
ResolvedAfterFallback(t) ==
  /\ th[t].prev.fell_back # None
  /\ th[t].op \in {"create", "fetchBaseRef"}
  /\ th[t].loc.base_ref # None

MessageHeads == { <<>>, <<"f","a","t","a","l",":"," ">>, <<"f","a","t","a","l",":"," ","t","h","e"," ">>, <<"F","a","t","a","l",":"," ","T","h","e"," ">>, <<"e","r","r","o","r",":"," ","t","h","e"," ">> }

MessageCores ==
  { <<"c","o","u","l","d","n","'","t"," ","f","i","n","d"," ","r","e","m","o","t","e"," ","r","e","f">>, <<"C","o","u","l","d","n","'","t"," ","F","i","n","d"," ","R","e","m","o","t","e"," ","R","e","f">>, <<"c","o","u","l","d","n","t"," ","f","i","n","d"," ","r","e","m","o","t","e"," ","r","e","f">>,
    <<"c","o","u","l","d"," ","n","o","t"," ","f","i","n","d"," ","r","e","m","o","t","e"," ","r","e","f">>, <<"C","O","U","L","D"," ","N","O","T"," ","F","I","N","D"," ","R","E","M","O","T","E"," ","R","E","F">>,
    <<"r","e","m","o","t","e"," ","r","e","f"," ","d","o","e","s"," ","n","o","t"," ","e","x","i","s","t">>, <<"r","e","m","o","t","e"," ","r","e","f"," ","e","x","i","s","t","s">>,
    <<"r","e","m","o","t","e"," ","e","n","d"," ","h","u","n","g"," ","u","p"," ","u","n","e","x","p","e","c","t","e","d","l","y">>, <<"R","e","m","o","t","e"," ","E","n","d"," ","H","u","n","g"," ","U","p"," ","U","n","e","x","p","e","c","t","e","d","l","y">>,
    <<"r","e","m","o","t","e"," ","e","n","d"," ","h","u","n","g"," ","u","p">>, <<"n","o"," ","s","u","c","h"," ","r","e","f"," ","w","a","s"," ","f","e","t","c","h","e","d">>, <<"N","o"," ","s","u","c","h"," ","r","e","f"," ","w","a","s"," ","f","e","t","c","h","e","d">>,
    <<"u","n","a","b","l","e"," ","t","o"," ","a","c","c","e","s","s">>, <<>> }

MessageTails == { <<>>, <<" ","r","e","l">>, <<"\n">> }

ClassifierInputs ==
  {[fn |-> "is_missing_remote_ref_error", message |-> h \o c \o tl] :
     h \in MessageHeads, c \in MessageCores, tl \in MessageTails}

InitClassifier ==
  /\ InitProgram
  /\ budget = 0
  /\ input \in ClassifierInputs
  /\ output = None

Classify ==
  /\ input.fn = "is_missing_remote_ref_error"
  /\ output = None
  /\ output' = Some(is_missing_remote_ref_error(input.message))
  /\ UNCHANGED <<shared, template, pushOnCreate, budget, input, known, clock, ncalls, th>>

SpecClassifier == InitClassifier /\ [][Classify]_vars

Classified == output # None /\ input.fn = "is_missing_remote_ref_error"

\* message contains sig, letters compared without regard to case
ContainsIgnoringCase(message, sig) ==
  \E i \in 1..(Len(message) - Len(sig) + 1) :
    \A k \in 1..Len(sig) : ToLower(<<message[i + k - 1]>>) = ToLower(<<sig[k]>>)

ClaimedSignatures ==
  { <<"c","o","u","l","d","n","'","t"," ","f","i","n","d"," ","r","e","m","o","t","e"," ","r","e","f">>, <<"c","o","u","l","d"," ","n","o","t"," ","f","i","n","d"," ","r","e","m","o","t","e"," ","r","e","f">>,
    <<"r","e","m","o","t","e"," ","r","e","f"," ","d","o","e","s"," ","n","o","t"," ","e","x","i","s","t">>, <<"r","e","m","o","t","e"," ","e","n","d"," ","h","u","n","g"," ","u","p"," ","u","n","e","x","p","e","c","t","e","d","l","y">>,
    <<"n","o"," ","s","u","c","h"," ","r","e","f"," ","w","a","s"," ","f","e","t","c","h","e","d">> }

CodeSignatures ==
  { <<"c","o","u","l","d","n","'","t"," ","f","i","n","d"," ","r","e","m","o","t","e"," ","r","e","f">>, <<"c","o","u","l","d"," ","n","o","t"," ","f","i","n","d"," ","r","e","m","o","t","e"," ","r","e","f">>,
    <<"r","e","m","o","t","e"," ","r","e","f"," ","d","o","e","s"," ","n","o","t"," ","e","x","i","s","t">>, <<"f","a","t","a","l",":"," ","t","h","e"," ","r","e","m","o","t","e"," ","e","n","d"," ","h","u","n","g"," ","u","p"," ","u","n","e","x","p","e","c","t","e","d","l","y">>,
    <<"n","o"," ","s","u","c","h"," ","r","e","f"," ","w","a","s"," ","f","e","t","c","h","e","d">> }

\* C32 as stated: a fetch error is classified as a missing remote ref exactly
\* when, compared case-insensitively, it contains "couldn't find remote ref",
\* "could not find remote ref", "remote ref does not exist", "remote end hung
\* up unexpectedly" or "no such ref was fetched"
MissingRefExactlyOnClaimedSignatures ==
  Classified =>
    (output[1] <=> \E sig \in ClaimedSignatures : ContainsIgnoringCase(input.message, sig))

\* C32 amended: the fourth substring is "fatal: the remote end hung up
\* unexpectedly"
MissingRefExactlyOnSignatures ==
  Classified =>
    (output[1] <=> \E sig \in CodeSignatures : ContainsIgnoringCase(input.message, sig))

\* git's "fatal: The remote end hung up unexpectedly" was classified as a
\* missing remote ref
HungUpClassifiedMissing ==
  /\ Classified /\ output[1]
  /\ input.message = <<"F","a","t","a","l",":"," ","T","h","e"," ","r","e","m","o","t","e"," ","e","n","d"," ","h","u","n","g"," ","u","p"," ","u","n","e","x","p","e","c","t","e","d","l","y">>

\* the default remote: git_remote when set and not blank, otherwise "origin"
DefaultRemoteOf(row) ==
  IF row.git_remote # None /\ HasText(row.git_remote[1])
    THEN Trim(row.git_remote[1]) ELSE ORIGIN

\* the row's base_ref is r/b and r is not among the project's remotes
IsUnconfiguredRemoteForm(r, b) ==
  /\ input.row.base_ref = Some(r \o <<"/">> \o b)
  /\ ~\E i \in 1..Len(input.configured) : input.configured[i] = r

\* the result came from the steps after the remote form: the local-branch
\* check was made, and the result is the local branch under the default
\* remote or a branch from git_branch or the remote's HEAD
FellThrough(raw) ==
  /\ \E i \in 1..Len(output[1].ran) : output[1].ran[i] = "rev-parse"
  /\ output[1].info.remote = DefaultRemoteOf(input.row)
  /\ IF raw \in input.env.heads
       THEN output[1].info.branch = raw
       ELSE \/ input.row.git_branch # None /\ output[1].info.branch = Trim(input.row.git_branch[1])
            \/ output[1].info.branch = get_default_branch(input.env.show)

\* C33: a stored base_ref r/b whose r is not one of the project's configured
\* remotes is never returned by resolve as its remote form; resolution falls
\* through to the local-branch check and then to git_branch or the remote's
\* HEAD
UnconfiguredRemoteFallsThrough ==
  Resolved =>
    \A r \in {ORIGIN, UP, REMOTES}, b \in BaseBranches :
      IsUnconfiguredRemoteForm(r, b) => FellThrough(r \o <<"/">> \o b)

\* the branches a line of `git remote show origin` names after "HEAD branch:"
HeadsOfLine(line) ==
  {Trim(SubSeq(line, k + Len(HEAD_BRANCH), Len(line))) :
     k \in {j \in 1..Len(line) :
              /\ j + Len(HEAD_BRANCH) - 1 <= Len(line)
              /\ SubSeq(line, j, j + Len(HEAD_BRANCH) - 1) = HEAD_BRANCH}}

\* the branches `git remote show origin` advertises as HEAD
AdvertisedHeads(show) ==
  IF show = None THEN {}
  ELSE UNION {HeadsOfLine(show[1][i]) : i \in 1..Len(show[1])} \ {<<>>}

\* s is not blank and has no whitespace between its first and last letter
UsableBranchName(s) ==
  HasText(s) /\ \A k \in 1..Len(Trim(s)) : ~IsWhitespace(Trim(s)[k])

\* the precedence of the claim
PrecedenceResult(row, env) ==
  LET parsed == IF row.base_ref = None THEN None
                ELSE parse_base_ref(row.base_ref[1], TRUE, env.remotes)
      remote == DefaultRemoteOf(row)
  IN IF parsed # None THEN parsed[1]
     ELSE IF row.base_ref # None /\ HasText(row.base_ref[1])
             /\ Trim(row.base_ref[1]) \in env.heads
       THEN BaseRefInfo(remote, Trim(row.base_ref[1]))
     ELSE IF row.git_branch # None /\ UsableBranchName(row.git_branch[1])
       THEN BaseRefInfo(remote, Trim(row.git_branch[1]))
     ELSE IF AdvertisedHeads(env.show) # {}
       THEN BaseRefInfo(remote, CHOOSE b \in AdvertisedHeads(env.show) : TRUE)
     ELSE BaseRefInfo(remote, MAIN)

\* C34: resolve follows a strict precedence: a base_ref that parses as
\* remote/branch wins; else a non-empty base_ref that exists as a local
\* branch gives {default remote, base_ref}; else git_branch is used if and
\* only if it is non-empty and contains no whitespace; else the remote's
\* advertised HEAD branch; else "main". The default remote is git_remote
\* when set and not blank, otherwise "origin"
ResolveFollowsPrecedence ==
  Resolved => output[1].info = PrecedenceResult(input.row, input.env)

\* a BaseRefInfo with a remote, a branch and the full_ref made of them
WellFormedBaseRef(info) ==
  /\ info.remote # <<>> /\ info.branch # <<>>
  /\ info.full_ref = info.remote \o <<"/">> \o info.branch

\* C35: every BaseRefInfo produced by resolve or by fetchWithFallback has a
\* non-empty remote, a non-empty branch and full_ref equal to remote + "/" +
\* branch, for every settings row and every outcome of the external commands
BaseRefsWellFormed ==
  Resolved =>
    /\ WellFormedBaseRef(output[1].info)
    /\ (output[1].fetched # None /\ output[1].fetched[1].success) =>
         /\ output[1].fetched[1].base_ref # None
         /\ WellFormedBaseRef(output[1].fetched[1].base_ref[1])

\* a row whose base_ref is "origin/" was resolved, and the fetch of the result
\* took the fallback
EmptyBranchSegmentResolved ==
  /\ Resolved
  /\ input.row.base_ref = Some(ORIGIN \o <<"/">>)
  /\ output[1].fetched # None /\ output[1].fetched[1].success
  /\ output[1].fetched[1].base_ref # Some(output[1].info)

\* every entry is stored under its own id and is active
EntriesKeyedById ==
  \A k \in DOMAIN registry : registry[k].id = k /\ registry[k].status = "active"

\* the keys whose entry a step has put into the Registry, or taken out of it
KeysInserted ==
  {k \in DOMAIN registry' : k \notin DOMAIN registry \/ registry'[k] # registry[k]}

KeysDeleted == DOMAIN registry \ DOMAIN registry'

\* an entry is put in only by the insert of create or of
\* create_worktree_from_branch, after the directory was verified to exist, and
\* taken out only by the last step of remove, alone or as the tail of merge
RegistryChangedByOwner ==
  /\ \A k \in KeysInserted :
       \E t \in Threads :
         /\ th[t].op \in {"create", "fromBranch"}
         /\ th[t].pc \in {"c_insert", "b_insert"} /\ th'[t].pc # th[t].pc
         /\ \E i \in 1..Len(th[t].log) : th[t].log[i] = "verify"
         /\ registry'[k] = th[t].loc.info[1]
  /\ \A k \in KeysDeleted :
       \E t \in Threads :
         /\ th[t].op \in {"remove", "merge"}
         /\ th[t].pc = "r_unreg2" /\ th'[t].pc # th[t].pc
         /\ k = th[t].loc.rm.worktree_id

\* C36: in every reachable state every Registry entry is stored under a key
\* equal to its own id and has status "active"; an entry is inserted only by
\* create or create_worktree_from_branch after the workspace directory was
\* verified to exist, and no operation other than remove, directly or as the
\* tail of merge, deletes an entry
RegistryEntriesOwned == []EntriesKeyedById /\ [][RegistryChangedByOwner]_vars

\* a merge has returned after its tail took the entry a creation had inserted
\* out of the Registry
MergeTailUnregistered ==
  \E t \in Threads :
    /\ th[t].op = "merge" /\ th[t].pc = "ret"
    /\ \E i \in 1..Len(th[t].log) : th[t].log[i] = "unregister"

\* remove holds the guard and is about to take its id out of the Registry
\* (lines 756-758)
AboutToUnregister(t) == th[t].op \in {"remove", "merge"} /\ th[t].pc = "r_unreg2"

\* C37: a remove(id) running concurrently with a creation that registers a
\* workspace at the same path, hence under the same id, never deletes the
\* entry that creation inserted: the removal at the end of remove takes out
\* only the entry remove read when it started
RemoveDeletesOnlyWhatItRead ==
  \A t \in Threads :
    AboutToUnregister(t) =>
      LET id == th[t].loc.rm.worktree_id
      IN id \in DOMAIN registry => registry[id] = th[t].loc.existing[1]

(***************************************************************************)
(* Termination: the concurrent commands under a fair scheduler             *)
(***************************************************************************)
\* every started command is eventually given its next step, and so is the
\* delivery of its result: the external commands and collaborators return
MaxFairCalls == 2   \* calls started in a fairly scheduled run

InitFair == Init /\ budget = MaxFairCalls

\* create, list, remove and merge are called with well-formed requests
CallFair(t) ==
  \/ CreateCallFor(t, {REPO}, {FIX}, {PROJ}) \/ ListCallFor(t, {REPO})
  \/ RemoveCallFor(t, {REPO}) \/ MergeCallFor(t, {REPO})

\* the next step of a started call, or the delivery of its result
RunFair(t) ==
  \/ CreateStep(t) \/ FetchStep(t) \/ ListStep(t) \/ RemoveStep(t)
  \/ MergeStep(t) \/ Deliver(t)

NextFair == \E t \in Threads : CallFair(t) \/ RunFair(t)

\* where a command calls Mutex::lock
LockPcs == {"c_lock", "l_lock", "g_lock", "a_lock", "r_lock", "r_unreg", "m_lock", "b_lock"}

\* the call is inside Mutex::lock and the guard is in someone's hands; a
\* remove that read no entry does not lock again (line 756)
WaitsForMutex(t) ==
  /\ th[t].pc \in LockPcs
  /\ lockHolder # "none"
  /\ ~(th[t].pc = "r_unreg" /\ th[t].loc.existing = None)

\* the positions of a create, list, remove or merge call
CallPcs ==
  {"c_begin", "c_row", "c_resolve", "f_fetch1", "f_default", "f_fetch2", "f_persist",
   "c_add", "c_verify", "c_id", "c_lock", "c_insert", "c_push",
   "l_begin", "l_git", "l_lock", "l_scan",
   "r_begin", "r_lock", "r_read", "r_gitremove", "r_prune", "r_rmdir", "r_chmod",
   "r_rmdir2", "r_branch", "r_prune2", "r_branch2", "r_pushdel", "r_unreg", "r_unreg2",
   "m_begin", "m_lock", "m_read", "m_default", "m_checkout", "m_merge"}

\* every external command and collaborator call returns, and a thread that
\* is not waiting for the mutex is scheduled: no call stays for ever at a
\* position it could leave
CommandsReturn ==
  \A t \in Threads : \A p \in CallPcs :
    []<>(~(th[t].pc = p /\ ~WaitsForMutex(t)))

SpecFair ==
  /\ InitFair /\ [][NextFair]_vars
  /\ \A t \in Threads : WF_vars(Deliver(t))
  /\ CommandsReturn

\* a create, list, remove or merge call that has not returned yet
InCall(t) ==
  /\ th[t].op \in {"create", "list", "remove", "merge"}
  /\ th[t].pc \notin {"idle", "ret"}

\* the attempts one call has made so far stay within two of each kind, and
\* the call is not at a lock() with the guard still in its hands
AttemptsBounded ==
  \A t \in Threads :
    /\ Len(th[t].loc.fetches) <= 2
    /\ Cardinality(StepsOf(t, "remove_dir_all")) <= 2
    /\ Cardinality(StepsOf(t, "branch_delete")) <= 2
    /\ th[t].pc \in LockPcs => lockHolder # t

\* C38: every create, list, remove and merge call returns when each external
\* command and collaborator call it issues returns: a base ref is fetched at
\* most twice, the directory is deleted at most twice, the local branch is
\* deleted at most twice, and no command locks the Registry mutex while it
\* already holds it
CallsTerminate ==
  /\ []AttemptsBounded
  /\ \A t \in Threads : InCall(t) ~> th[t].pc = "ret"

\* a remove has returned after deleting the directory twice and the local
\* branch twice, and after taking the mutex a second time to unregister
RemoveReturnedAfterAllRetries ==
  \E t \in Threads :
    /\ Returned(t, "remove")
    /\ Cardinality(StepsOf(t, "remove_dir_all")) = 2
    /\ Cardinality(StepsOf(t, "branch_delete")) = 2
    /\ Cardinality(StepsOf(t, "lock")) = 2

(***************************************************************************)
(* slugify applied on its own                                              *)
(***************************************************************************)
MaxSlugLen == 3     \* characters of a task name given to slugify

\* letters of both cases, a digit, separators, whitespace, and characters
\* outside ASCII whose lowercase is ASCII, is not ASCII, or is two characters
SlugChars ==
  {"a", "Z", "7", "-", "_", " ",
   E_ACUTE_CAPITAL, KELVIN_SIGN, I_DOTTED_CAPITAL}

RECURSIVE StringsUpTo(_, _)
StringsUpTo(chars, n) ==
  IF n = 0 THEN {<<>>}
  ELSE LET shorter == StringsUpTo(chars, n - 1)
       IN shorter \cup {Append(s, c) : s \in shorter, c \in chars}

SlugInputs == [fn : {"slugify"}, name : StringsUpTo(SlugChars, MaxSlugLen)]

InitSlug ==
  /\ InitProgram
  /\ budget = 0
  /\ input \in SlugInputs
  /\ output = None

\* slugify(name), and slugify applied to what it returned
Slugify ==
  /\ input.fn = "slugify"
  /\ output = None
  /\ output' = Some([once |-> slugify(input.name),
                     twice |-> slugify(slugify(input.name))])
  /\ UNCHANGED <<shared, template, pushOnCreate, budget, input, known, clock, ncalls, th>>

SpecSlug == InitSlug /\ [][Slugify]_vars

Slugged == output # None /\ input.fn = "slugify"

\* C39: for every input slugify returns a string made only of lowercase
\* ASCII letters, digits and '-', with no two consecutive '-' and no leading
\* or trailing '-', and slugify is idempotent: slugify(slugify(x)) = slugify(x)
SlugWellFormedAndIdempotent ==
  Slugged =>
    LET slug == output[1].once
    IN /\ \A i \in 1..Len(slug) :
            slug[i] \in Range(LowerSeq) \cup Range(DigitSeq) \cup {"-"}
       /\ \A i \in 1..(Len(slug) - 1) : ~(slug[i] = "-" /\ slug[i + 1] = "-")
       /\ Len(slug) > 0 => slug[1] # "-" /\ slug[Len(slug)] # "-"
       /\ output[1].twice = slug

\* a name of a blank, the dotted capital I and a separator has been slugged
\* to the letter i alone: the combining dot and the separator collapse to
\* one '-', which is trimmed like the leading one
DottedNameSlugged ==
  /\ Slugged
  /\ input.name = <<" ", I_DOTTED_CAPITAL, "_">>
  /\ output[1].once = <<"i">>
=============================================================================
